---- MODULE Spec2Model ----
(***************************************************************************)
(* Backend-abstracted web search tool of the function-call leaderboard:    *)
(* SearchConfig (web_search/config.py), the three search backends          *)
(* (web_search/backends/*.py), the WebSearchAPI facade (web_search/api.py) *)
(* and fetch_url_content (web_search/web_search_legacy.py).                *)
(*                                                                         *)
(* Conventions.  A Python dict is a TLA+ function whose DOMAIN is the set  *)
(* of keys present.  Python None, where the other values are strings, is   *)
(* the string None below.  The optional boolean use_proxy is <<>> when the *)
(* caller gave no value and <<b>> when the caller gave b.  A message built *)
(* with an f-string is the tuple of its pieces.  A value returned by a     *)
(* function is a record with a field kind: "list" (a result list),         *)
(* "error" (a dict with the key error), "backend" (a backend instance) or  *)
(* "raise" (an exception leaves the function).  What a provider does       *)
(* during a search is a script: its responses to the calls of the search,  *)
(* in order; a search whose script ends inside its retry loop is           *)
(* "running".  Waits are counted in ticks, TicksPerUnit to the second.     *)
(*                                                                         *)
(* Specifications.  Spec: the facade over the registry it builds.          *)
(* SpecHandMade: the facade over a registry assigned by hand.              *)
(* SpecBackends: the backends called directly, each call in one step.      *)
(* SpecSerpLoop: one SerpAPI search, one step per provider call, handling  *)
(* and sleep, with fairness for the steps of the call in progress.         *)
(* SpecConfig: SearchConfig on its own, the API keys of the environment    *)
(* changing between its calls.  SpecFallback: search_with_fallback.        *)
(* SpecFetch: fetch_url_content.  SpecConcurrent: DuckDuckGo searches of   *)
(* several callers on one instance, interleaved step by step.              *)
(* SpecFacade: every operation of the facade, the API keys of the          *)
(* environment changing between the calls.                                 *)
(***************************************************************************)
EXTENDS Integers, Sequences, FiniteSets, TLC

VARIABLES
    env,        \* os.environ: the variables the tool reads
    config,     \* WebSearchAPI.config, the resolved SearchConfig
    backends,   \* WebSearchAPI.backends, the registry, in insertion order
    request,    \* the call in hand, on the facade or on a backend, with its arguments
    calls,      \* the backend searches that call made, in order
    result,     \* what that call returned (or raised) to its caller
    api_show_snippet    \* WebSearchAPI.show_snippet

vars == <<env, config, backends, request, calls, result, api_show_snippet>>

None == "None"
NoArg == <<>>

Truthy(s) == s # None /\ s # ""

\* web_search/constants.py
DEFAULT_PROXY_HOST == "brd.superproxy.io"
DEFAULT_PROXY_PORT == 22225
DEFAULT_MAX_RETRIES == 3

BackendNames == {"duckduckgo", "serpapi", "youcom"}

EmptyDict == [k \in {} |-> None]

Has(d, k) == k \in DOMAIN d
Get(d, k, default) == IF k \in DOMAIN d THEN d[k] ELSE default

(***************************************************************************)
(* SearchConfig                                                            *)
(***************************************************************************)

\* int(os.getenv("BRIGHTDATA_PORT", str(DEFAULT_PROXY_PORT))) with its except branch
\* int(s) for the strings it accepts: digits with an optional sign, blanks around
\* them allowed; any other string raises ValueError
PortStrings ==
    ("8080" :> 8080) @@ ("22225" :> DEFAULT_PROXY_PORT) @@ ("9999" :> 9999)
    @@ (" 8080\n" :> 8080) @@ ("-1" :> 0 - 1)

\* the port of the environment never read
EnvPortDefaultOnly(e) == DEFAULT_PROXY_PORT

EnvPort(e) ==
    IF e.BRIGHTDATA_PORT = None THEN DEFAULT_PROXY_PORT
    ELSE IF e.BRIGHTDATA_PORT \in DOMAIN PortStrings THEN PortStrings[e.BRIGHTDATA_PORT]
    ELSE DEFAULT_PROXY_PORT

EnvProxyConfig(e) ==
    [host     |-> IF e.BRIGHTDATA_HOST = None THEN DEFAULT_PROXY_HOST ELSE e.BRIGHTDATA_HOST,
     port     |-> EnvPort(e),
     username |-> e.BRIGHTDATA_USERNAME,
     password |-> e.BRIGHTDATA_PASSWORD]

\* "value is None" for a value of any type
IsNone(value) == ToString(value) = ToString(None)

\* the loop without its test "value is not None"
MergeProxyNullsToo(envProxy, configProxy) ==
    [k \in DOMAIN envProxy \cup DOMAIN configProxy |->
        IF k \in DOMAIN configProxy THEN configProxy[k] ELSE envProxy[k]]

\* the loop of _parse_config over config["proxy_config"].items()
MergeProxy(envProxy, configProxy) ==
    [k \in DOMAIN envProxy \cup {key \in DOMAIN configProxy : ~IsNone(configProxy[key])} |->
        IF k \in DOMAIN configProxy /\ ~IsNone(configProxy[k])
        THEN configProxy[k]
        ELSE envProxy[k]]

\* _parse_config merging the environment into the caller's proxy_config where
\* it stands, instead of into a copy of env_proxy_config
ParseConfigInPlace(e, cfg) ==
    [config            |-> IF Has(cfg, "proxy_config")
                           THEN [k \in DOMAIN cfg |->
                                    IF k = "proxy_config"
                                    THEN MergeProxy(EnvProxyConfig(e), cfg.proxy_config)
                                    ELSE cfg[k]]
                           ELSE cfg,
     proxy_config      |-> IF Has(cfg, "proxy_config")
                           THEN MergeProxy(EnvProxyConfig(e), cfg.proxy_config)
                           ELSE EnvProxyConfig(e),
     show_snippet      |-> Get(cfg, "show_snippet", TRUE),
     preferred_backend |-> Get(cfg, "preferred_backend", None),
     enable_fallback   |-> Get(cfg, "enable_fallback", TRUE)]

\* SearchConfig.__init__ and _parse_config; config is self.config, the mapping
\* of the caller itself (no copy is made), which no statement assigns into
ParseConfig(e, cfg) ==
    [config            |-> cfg,
     proxy_config      |-> IF Has(cfg, "proxy_config")
                           THEN MergeProxy(EnvProxyConfig(e), cfg.proxy_config)
                           ELSE EnvProxyConfig(e),
     show_snippet      |-> Get(cfg, "show_snippet", TRUE),
     preferred_backend |-> Get(cfg, "preferred_backend", None),
     enable_fallback   |-> Get(cfg, "enable_fallback", TRUE)]

(***************************************************************************)
(* Backends                                                                *)
(***************************************************************************)

\* "a or b" on optional strings
OrElse(a, b) == IF Truthy(a) THEN a ELSE b

DuckDuckGoBackend(proxy_config, show_snippet) ==
    [name |-> "duckduckgo", proxy_config |-> proxy_config, show_snippet |-> show_snippet]

SerpApiBackend(e, api_key, show_snippet) ==
    [name |-> "serpapi", api_key |-> OrElse(api_key, e.SERPAPI_API_KEY),
     show_snippet |-> show_snippet]

YouComBackend(e, api_key, show_snippet) ==
    [name |-> "youcom", api_key |-> OrElse(api_key, e.YDC_API_KEY),
     show_snippet |-> show_snippet]

\* is_available asking the environment for the key at the time of the call
IsAvailableNow(b) ==
    CASE b.name = "duckduckgo" -> TRUE
      [] b.name = "serpapi" -> Truthy(env.SERPAPI_API_KEY)
      [] OTHER -> Truthy(env.YDC_API_KEY)

is_available(b) ==
    IF b.name = "duckduckgo" THEN TRUE
    ELSE b.api_key # None /\ b.api_key # ""      \* is not None and len(...) > 0

\* the three names whatever the environment holds
ConfigAvailableAll(e) == <<"serpapi", "youcom", "duckduckgo">>

\* SearchConfig.get_available_backends
config_get_available_backends(e) ==
    (IF Truthy(e.SERPAPI_API_KEY) THEN <<"serpapi">> ELSE <<>>)
    \o (IF Truthy(e.YDC_API_KEY) THEN <<"youcom">> ELSE <<>>)
    \o <<"duckduckgo">>

\* create_backends making a You.com backend only when its key is set
CreateBackendsKeyedOnly(e, c) ==
    <<DuckDuckGoBackend(c.proxy_config, c.show_snippet)>>
    \o (IF Truthy(e.SERPAPI_API_KEY)
        THEN <<SerpApiBackend(e, e.SERPAPI_API_KEY, c.show_snippet)>>
        ELSE <<>>)
    \o (IF Truthy(e.YDC_API_KEY)
        THEN <<YouComBackend(e, e.YDC_API_KEY, c.show_snippet)>>
        ELSE <<>>)

\* SearchConfig.create_backends
create_backends(e, c) ==
    <<DuckDuckGoBackend(c.proxy_config, c.show_snippet)>>
    \o (IF Truthy(e.SERPAPI_API_KEY)
        THEN <<SerpApiBackend(e, e.SERPAPI_API_KEY, c.show_snippet)>>
        ELSE <<>>)
    \o <<YouComBackend(e, e.YDC_API_KEY, c.show_snippet)>>

(***************************************************************************)
(* Values a search returns                                                 *)
(***************************************************************************)

\* a result list; from names the backend it came from
ResultList(name, items) == [kind |-> "list", from |-> name, items |-> items]
Error(msg) == [kind |-> "error", error |-> msg]
Raise(msg) == [kind |-> "raise", msg |-> msg]

\* a text is a tuple of pieces, cut so that a substring the code looks for
\* ("429", "not configured") is one piece of it: `piece in text`
Contains(text, piece) == \E i \in DOMAIN text : text[i] = piece

Min(a, b) == IF a <= b THEN a ELSE b
Max(a, b) == IF a >= b THEN a ELSE b

\* seq[:m]: the first m elements, and for a negative m all but the last -m
Slice(seq, m) ==
    IF m >= 0 THEN SubSeq(seq, 1, Min(m, Len(seq)))
    ELSE SubSeq(seq, 1, Max(Len(seq) + m, 0))

\* the keyword arguments of backend.search
SearchParams(keywords, max_results, region, use_proxy) ==
    [keywords |-> keywords, max_results |-> max_results, region |-> region,
     use_proxy |-> use_proxy]

\* time is counted in ticks, TicksPerUnit of them to the second; random.random()
\* gives u / TicksPerUnit for a draw u of Draws, which is in [0, 1)
TicksPerUnit == 2
Draws == 0..(TicksPerUnit - 1)

\* random.uniform(a, b) = a + (b - a) * random.random(), in ticks
Uniform(a, b, u) == a * TicksPerUnit + (b - a) * u

\* one time.sleep(wait_time): the backoff it was computed from, in seconds, and
\* wait_time in ticks
Slept(backoff, wait_time) == [base |-> backoff, wait_time |-> wait_time]

NoProxies == <<>>
NotSent == <<>>

\* what one backend search did: its return value, the provider calls it made,
\* the sleeps between them, the proxies argument of its requests.get (<<>> is
\* proxies=None) and the parameters of its provider request (<<>>: none made)
Ran(out, attempts, waits, proxies, sent) ==
    [out |-> out, attempts |-> attempts, waits |-> waits, proxies |-> proxies,
     sent |-> sent]

(***************************************************************************)
(* DuckDuckGoBackend                                                       *)
(***************************************************************************)

\* _get_proxy_dict with the password test left out
GetProxyDictUsernameOnly(b) ==
    IF ~Truthy(Get(b.proxy_config, "username", None))
    THEN NoProxies
    ELSE LET proxy_url == <<"http://", b.proxy_config.username, ":", b.proxy_config.password, "@",
                            Get(b.proxy_config, "host", DEFAULT_PROXY_HOST), ":",
                            ToString(Get(b.proxy_config, "port", DEFAULT_PROXY_PORT))>>
         IN  <<[http |-> proxy_url, https |-> proxy_url]>>

_get_proxy_dict(b) ==
    IF ~(Truthy(Get(b.proxy_config, "username", None))
         /\ Truthy(Get(b.proxy_config, "password", None)))
    THEN NoProxies
    ELSE LET host == Get(b.proxy_config, "host", DEFAULT_PROXY_HOST)
             port == Get(b.proxy_config, "port", DEFAULT_PROXY_PORT)
             username == b.proxy_config.username
             password == b.proxy_config.password
             proxy_url == <<"http://", username, ":", password, "@", host, ":", ToString(port)>>
         IN  <<[http |-> proxy_url, https |-> proxy_url]>>

DDGProxies(b, use_proxy) == IF use_proxy THEN _get_proxy_dict(b) ELSE NoProxies

\* what one requests.get of the scrape does: the page arrives, a
\* requests.exceptions.RequestException, or another exception
AttemptOutcomes == {"page", "transport", "other"}

\* a page is the sequence of its <div class="result">; a div is a mapping with
\* title and href (text and href of its a.result__a; no title: no such link),
\* snippet (text of its a.result__snippet) and raises (parsing the div raises)
DDGResult(b, div) ==
    [title |-> div.title, href |-> Get(div, "href", "")]
    @@ (IF b.show_snippet THEN [body |-> Get(div, "snippet", "")] ELSE EmptyDict)

\* lines 98-123: the loop over result_divs[:max_results]
DDGParse(b, divs, max_results) ==
    LET parsed(div) == Has(div, "title") /\ ~Has(div, "raises")
        kept == SelectSeq(Slice(divs, max_results), parsed)
    IN  [i \in DOMAIN kept |-> DDGResult(b, kept[i])]

DEFAULT_RETRY_BACKOFF == 1
MAX_RETRY_BACKOFF == 30

\* the jitter drawn up to the backoff instead: random.uniform(0, backoff)
DDGJitterScaled(backoff, u) == Uniform(0, backoff, u)

\* the jitter of a wait of the scrape: random.uniform(0, 1)
DDGJitter(backoff, u) == Uniform(0, 1, u)

\* the retry test letting the last attempt retry too
DDGRetriesAlways(attempt) == attempt < DEFAULT_MAX_RETRIES

\* the retry test of the except clause
DDGRetries(attempt) == attempt < DEFAULT_MAX_RETRIES - 1

\* the for loop of search, from iteration `attempt` on
RECURSIVE DDGLoop(_, _, _, _, _, _)

\* every exception retried the way a RequestException is
DDGOtherRetried(b, p, script, attempt, backoff, waits) ==
    IF DDGRetries(attempt)
    THEN DDGLoop(b, p, script, attempt + 1, Min(backoff * 2, MAX_RETRY_BACKOFF),
                 Append(waits, Slept(backoff, backoff * TicksPerUnit)))
    ELSE [out |-> Error(<<"Unexpected error while processing DuckDuckGo results: ", "other">>),
          attempts |-> attempt + 1, waits |-> waits]

\* what the except clause for everything but RequestException does
DDGOtherException(b, p, script, attempt, backoff, waits) ==
    [out |-> Error(<<"Unexpected error while processing DuckDuckGo results: ", "other">>),
     attempts |-> attempt + 1, waits |-> waits]

DDGLoop(b, p, script, attempt, backoff, waits) ==
    IF attempt >= DEFAULT_MAX_RETRIES
    THEN [out |-> ResultList(b.name, <<>>), attempts |-> attempt, waits |-> waits]
    ELSE LET got == script[attempt + 1]
         IN  CASE got.r = "page" ->
                    [out |-> ResultList(b.name, DDGParse(b, got.divs, p.max_results)),
                     attempts |-> attempt + 1, waits |-> waits]
               [] got.r = "transport" ->
                    IF DDGRetries(attempt)
                    THEN LET wait_time == backoff * TicksPerUnit + DDGJitter(backoff, got.u)
                         IN  DDGLoop(b, p, script, attempt + 1,
                                     Min(backoff * 2, MAX_RETRY_BACKOFF),
                                     Append(waits, Slept(backoff, wait_time)))
                    ELSE [out |-> Error(<<"Failed to fetch DuckDuckGo results after ",
                                          ToString(DEFAULT_MAX_RETRIES), " attempts: ",
                                          "transport">>),
                          attempts |-> attempt + 1, waits |-> waits]
               [] OTHER -> DDGOtherException(b, p, script, attempt, backoff, waits)

DDGSearch(b, p, script) ==
    LET params == [q |-> p.keywords,
                   kl |-> IF p.region # "wt-wt" THEN p.region ELSE "us-en"]
        proxies == DDGProxies(b, p.use_proxy)
        run == DDGLoop(b, p, script, 0, DEFAULT_RETRY_BACKOFF, <<>>)
    IN  Ran(run.out, run.attempts, run.waits, proxies, <<params>>)

(***************************************************************************)
(* SerpApiBackend                                                          *)
(***************************************************************************)

\* what one GoogleSearch(params).get_dict() does: it raises an exception with a
\* text, or returns a body, a mapping that may hold error and organic_results
SerpResponses == {"raise", "body"}

\* the test of the thrown error alone
SerpRateLimitedThrownOnly(got) == got.r = "raise" /\ Contains(got.text, "429")

\* the two tests for a rate-limit signal
SerpRateLimited(got) ==
    IF got.r = "raise" THEN Contains(got.text, "429")
    ELSE Has(got.body, "error") /\ Contains(got.body.error, "429")

\* the keys the loop over the results reads from each of them
SerpKeys(b) == IF b.show_snippet THEN <<"title", "link", "snippet">> ELSE <<"title", "link">>

SerpResult(b, r) ==
    [title |-> r.title, href |-> r.link]
    @@ (IF b.show_snippet THEN [body |-> r.snippet] ELSE EmptyDict)

\* lines 94-108: the loop over search_results[:max_results]; a key a result
\* lacks raises KeyError
SerpParse(b, organic, max_results) ==
    LET taken == Slice(organic, max_results)
        keys == SerpKeys(b)
        lacks(i) == {k \in DOMAIN keys : ~Has(taken[i], keys[k])}
        bad == {i \in DOMAIN taken : lacks(i) # {}}
    IN  IF bad # {}
        THEN LET i == CHOOSE x \in bad : \A y \in bad : x <= y
                 k == CHOOSE x \in lacks(i) : \A y \in lacks(i) : x <= y
             IN  Raise("'" \o keys[k] \o "'")
        ELSE ResultList(b.name, [i \in DOMAIN taken |-> SerpResult(b, taken[i])])

SERP_RETRY_BACKOFF == 2
SERP_MAX_BACKOFF == 120

\* the doubling without its cap
SerpNextBackoffUncapped(backoff) == backoff * 2

\* the backoff of the next wait after a rate-limit signal
SerpNextBackoff(backoff) == Min(backoff * 2, SERP_MAX_BACKOFF)

\* the while loop of search and the lines after it, from the i-th provider call
\* on; a script that ends with the loop still running leaves the search running
RECURSIVE SerpLoop(_, _, _, _, _, _)

\* every exception retried the way a rate-limit signal is
SerpOtherRetried(b, p, script, i, backoff, waits) ==
    SerpLoop(b, p, script, i + 1, SerpNextBackoff(backoff),
             Append(waits, Slept(backoff, backoff * TicksPerUnit)))

\* what the else branch of the except clause does
SerpOtherException(b, p, script, i, backoff, waits) ==
    [out |-> Error(script[i].text), attempts |-> i, waits |-> waits]

\* a body without organic_results taken for a search that found nothing
SerpNoResultsEmptyList(b, i, waits) ==
    [out |-> ResultList(b.name, <<>>), attempts |-> i, waits |-> waits]

\* lines 91-92: the body holds no organic_results
SerpNoResults(b, i, waits) ==
    [out |-> Error(<<"Failed to retrieve the search results from server. Please try again later.">>),
     attempts |-> i, waits |-> waits]

SerpLoop(b, p, script, i, backoff, waits) ==
    IF i > Len(script)
    THEN [out |-> [kind |-> "running"], attempts |-> i - 1, waits |-> waits,
          backoff |-> backoff]
    ELSE LET got == script[i]
         IN  IF SerpRateLimited(got)
             THEN LET wait_time == backoff * TicksPerUnit + Uniform(0, backoff, got.u)
                  IN  SerpLoop(b, p, script, i + 1, SerpNextBackoff(backoff),
                               Append(waits, Slept(backoff, wait_time)))
             ELSE IF got.r = "raise"
             THEN SerpOtherException(b, p, script, i, backoff, waits)
             ELSE IF ~Has(got.body, "organic_results")
             THEN SerpNoResults(b, i, waits)
             ELSE [out |-> SerpParse(b, got.body.organic_results, p.max_results),
                   attempts |-> i, waits |-> waits]

\* search without the is_available test
SerpSearchUnguarded(b, p, script) ==
    LET params == [engine |-> "duckduckgo", q |-> p.keywords, kl |-> p.region,
                   api_key |-> b.api_key]
        run == SerpLoop(b, p, script, 1, SERP_RETRY_BACKOFF, <<>>)
    IN  Ran(run.out, run.attempts, run.waits, NoProxies,
            IF run.attempts = 0 THEN NotSent ELSE <<params>>)

SerpSearch(b, p, script) ==
    IF ~is_available(b)
    THEN Ran(Error(<<"SerpAPI key ", "not configured",
                     ". Set SERPAPI_API_KEY environment variable or provide api_key parameter.">>),
             0, <<>>, NoProxies, NotSent)
    ELSE LET params == [engine |-> "duckduckgo", q |-> p.keywords, kl |-> p.region,
                        api_key |-> b.api_key]
             run == SerpLoop(b, p, script, 1, SERP_RETRY_BACKOFF, <<>>)
         IN  Ran(run.out, run.attempts, run.waits, NoProxies,
                 IF run.attempts = 0 THEN NotSent ELSE <<params>>)

(***************************************************************************)
(* YouComBackend                                                           *)
(***************************************************************************)

\* what the one request does: a JSON body arrives, a RequestException, another
\* exception
YouComResponses == {"json", "transport", "other"}

YOUCOM_COUNT_LIMIT == 10

YouComResult(b, r) ==
    [title |-> Get(r, "title", ""), href |-> Get(r, "url", "")]
    @@ (IF b.show_snippet
        THEN [body |-> IF Truthy(Get(r, "snippet", None)) THEN r.snippet
                       ELSE Get(r, "description", "")]
        ELSE EmptyDict)

\* all_results with the news results put first
YouComNewsFirst(data) ==
    Get(Get(data, "results", EmptyDict), "news", <<>>)
    \o Get(Get(data, "results", EmptyDict), "web", <<>>)

\* lines 62-67: web_results + news_results
YouComAllResults(data) ==
    Get(Get(data, "results", EmptyDict), "web", <<>>)
    \o Get(Get(data, "results", EmptyDict), "news", <<>>)

\* the JSON body parsed without the test for no results at all
YouComParseEmptyList(b, data, max_results) ==
    LET taken == Slice(YouComAllResults(data), max_results)
    IN  ResultList(b.name, [i \in DOMAIN taken |-> YouComResult(b, taken[i])])

\* lines 69-88: what search makes of the JSON body
YouComParse(b, data, max_results) ==
    LET all_results == YouComAllResults(data)
        taken == Slice(all_results, max_results)
    IN  IF all_results = <<>>
        THEN Error(<<"No search results found">>)
        ELSE ResultList(b.name, [i \in DOMAIN taken |-> YouComResult(b, taken[i])])

YouComSearch(b, p, script) ==
    IF ~is_available(b)
    THEN Ran(Error(<<"You.com API key ", "not configured",
                     ". Set YDC_API_KEY environment variable or provide api_key parameter.">>),
             0, <<>>, NoProxies, NotSent)
    ELSE LET params == [query |-> p.keywords,
                        count |-> Min(p.max_results, YOUCOM_COUNT_LIMIT)]
             got == script[1]
             out == CASE got.r = "json" -> YouComParse(b, got.data, p.max_results)
                      [] got.r = "transport" ->
                           Error(<<"Failed to fetch You.com results: ", "transport">>)
                      [] OTHER ->
                           Error(<<"Unexpected error while processing You.com results: ",
                                   "other">>)
         IN  Ran(out, 1, <<>>, NoProxies, <<params>>)

\* the value get_content returns for a crawl that arrived
Content(data) == [kind |-> "content", results |-> data]

\* YouComBackend.get_content
get_content(b, urls, got) ==
    IF ~is_available(b)
    THEN Ran(Error(<<"You.com API key ", "not configured">>), 0, <<>>, NoProxies, NotSent)
    ELSE LET payload == [urls |-> urls, livecrawl_formats |-> "html"]
             out == CASE got.r = "json" -> Content(got.data)
                      [] got.r = "transport" ->
                           Error(<<"Failed to fetch content: ", "transport">>)
                      [] OTHER ->
                           Error(<<"Unexpected error while fetching content: ", "other">>)
         IN  Ran(out, 1, <<>>, NoProxies, <<payload>>)

\* backend.search(**search_params): the dispatch on the instance's class
BackendSearch(b, p, script) ==
    CASE b.name = "duckduckgo" -> DDGSearch(b, p, script)
      [] b.name = "serpapi" -> SerpSearch(b, p, script)
      [] OTHER -> YouComSearch(b, p, script)

(***************************************************************************)
(* WebSearchAPI                                                            *)
(***************************************************************************)

Names(reg) == {reg[i].name : i \in DOMAIN reg}
InRegistry(reg, name) == name \in Names(reg)
Lookup(reg, name) == reg[CHOOSE i \in DOMAIN reg : reg[i].name = name]

\* {backend.name: backend for backend in ...}: a later instance replaces an
\* earlier one of the same name and keeps the earlier one's position
Registry(list) ==
    LET last(n) == CHOOSE i \in DOMAIN list :
                       list[i].name = n /\ \A j \in DOMAIN list : list[j].name = n => j <= i
        first(i) == \A j \in DOMAIN list : list[j].name = list[i].name => i <= j
    IN  [i \in DOMAIN SelectSeq([k \in DOMAIN list |-> k], first) |->
            list[last(list[SelectSeq([k \in DOMAIN list |-> k], first)[i]].name)]]

Selected(b) == [kind |-> "backend", backend |-> b]

\* _select_backend with the two API backends tried in the other order
SelectYouComFirst(reg, c, backend_name) ==
    IF Truthy(backend_name) /\ InRegistry(reg, backend_name)
    THEN Selected(Lookup(reg, backend_name))
    ELSE IF Truthy(c.preferred_backend) /\ InRegistry(reg, c.preferred_backend)
    THEN Selected(Lookup(reg, c.preferred_backend))
    ELSE IF InRegistry(reg, "youcom") /\ is_available(Lookup(reg, "youcom"))
    THEN Selected(Lookup(reg, "youcom"))
    ELSE IF InRegistry(reg, "serpapi") /\ is_available(Lookup(reg, "serpapi"))
    THEN Selected(Lookup(reg, "serpapi"))
    ELSE IF InRegistry(reg, "duckduckgo")
    THEN Selected(Lookup(reg, "duckduckgo"))
    ELSE Raise("No search backends available")

\* _select_backend taking a named or preferred backend only when it is available
SelectAvailableOnly(reg, c, backend_name) ==
    IF Truthy(backend_name) /\ InRegistry(reg, backend_name)
       /\ is_available(Lookup(reg, backend_name))
    THEN Selected(Lookup(reg, backend_name))
    ELSE IF Truthy(c.preferred_backend) /\ InRegistry(reg, c.preferred_backend)
            /\ is_available(Lookup(reg, c.preferred_backend))
    THEN Selected(Lookup(reg, c.preferred_backend))
    ELSE IF InRegistry(reg, "serpapi") /\ is_available(Lookup(reg, "serpapi"))
    THEN Selected(Lookup(reg, "serpapi"))
    ELSE IF InRegistry(reg, "youcom") /\ is_available(Lookup(reg, "youcom"))
    THEN Selected(Lookup(reg, "youcom"))
    ELSE IF InRegistry(reg, "duckduckgo")
    THEN Selected(Lookup(reg, "duckduckgo"))
    ELSE Raise("No search backends available")

\* _select_backend passing over a preferred backend that is not available
SelectPreferredIfAvailable(reg, c, backend_name) ==
    IF Truthy(backend_name) /\ InRegistry(reg, backend_name)
    THEN Selected(Lookup(reg, backend_name))
    ELSE IF Truthy(c.preferred_backend) /\ InRegistry(reg, c.preferred_backend)
            /\ is_available(Lookup(reg, c.preferred_backend))
    THEN Selected(Lookup(reg, c.preferred_backend))
    ELSE IF InRegistry(reg, "serpapi") /\ is_available(Lookup(reg, "serpapi"))
    THEN Selected(Lookup(reg, "serpapi"))
    ELSE IF InRegistry(reg, "youcom") /\ is_available(Lookup(reg, "youcom"))
    THEN Selected(Lookup(reg, "youcom"))
    ELSE IF InRegistry(reg, "duckduckgo")
    THEN Selected(Lookup(reg, "duckduckgo"))
    ELSE Raise("No search backends available")

\* _select_backend ending in return self.backends["duckduckgo"] without the test
SelectDefaultUnchecked(reg, c, backend_name) ==
    IF Truthy(backend_name) /\ InRegistry(reg, backend_name)
    THEN Selected(Lookup(reg, backend_name))
    ELSE IF Truthy(c.preferred_backend) /\ InRegistry(reg, c.preferred_backend)
    THEN Selected(Lookup(reg, c.preferred_backend))
    ELSE IF InRegistry(reg, "serpapi") /\ is_available(Lookup(reg, "serpapi"))
    THEN Selected(Lookup(reg, "serpapi"))
    ELSE IF InRegistry(reg, "youcom") /\ is_available(Lookup(reg, "youcom"))
    THEN Selected(Lookup(reg, "youcom"))
    ELSE IF InRegistry(reg, "duckduckgo")
    THEN Selected(Lookup(reg, "duckduckgo"))
    ELSE Raise("'duckduckgo'")

_select_backend(reg, c, backend_name) ==
    IF Truthy(backend_name) /\ InRegistry(reg, backend_name)
    THEN Selected(Lookup(reg, backend_name))
    ELSE IF Truthy(c.preferred_backend) /\ InRegistry(reg, c.preferred_backend)
    THEN Selected(Lookup(reg, c.preferred_backend))
    ELSE IF InRegistry(reg, "serpapi") /\ is_available(Lookup(reg, "serpapi"))
    THEN Selected(Lookup(reg, "serpapi"))
    ELSE IF InRegistry(reg, "youcom") /\ is_available(Lookup(reg, "youcom"))
    THEN Selected(Lookup(reg, "youcom"))
    ELSE IF InRegistry(reg, "duckduckgo")
    THEN Selected(Lookup(reg, "duckduckgo"))
    ELSE Raise("No search backends available")

\* the available names in the order auto selection prefers them
AvailableByPriority(reg) ==
    LET has(n) == InRegistry(reg, n) /\ is_available(Lookup(reg, n))
    IN  (IF has("serpapi") THEN <<"serpapi">> ELSE <<>>)
        \o (IF has("youcom") THEN <<"youcom">> ELSE <<>>)
        \o (IF has("duckduckgo") THEN <<"duckduckgo">> ELSE <<>>)

\* WebSearchAPI.get_available_backends
get_available_backends(reg) ==
    LET avail(b) == is_available(b)
        kept == SelectSeq(reg, avail)
    IN  [i \in DOMAIN kept |-> kept[i].name]

\* bool(self.config.proxy_config.get("username"))
ProxyConfigured(c) == Truthy(Get(c.proxy_config, "username", None))

\* the "Handle proxy parameter" block for the selected backend
PrimaryUseProxy(c, selected, use_proxy) ==
    IF use_proxy = NoArg
    THEN IF selected.name = "duckduckgo" THEN ProxyConfigured(c) ELSE FALSE
    ELSE use_proxy[1]

\* the "Adjust proxy settings for fallback" block
FallbackUseProxy(c, fallback, use_proxy) ==
    IF fallback.name = "duckduckgo" THEN ProxyConfigured(c) ELSE FALSE

\* the candidate list without the test b != selected_backend
CandidatesWithSelected(reg, selected) ==
    LET avail(b) == is_available(b)
    IN  SelectSeq(reg, avail)

\* [b for b in self.backends.values() if b.is_available() and b != selected_backend]
\* the candidates without the is_available test
CandidatesUnavailableToo(reg, selected) ==
    LET other(b) == b.name # selected.name
    IN  SelectSeq(reg, other)

FallbackCandidates(reg, selected) ==
    LET other(b) == is_available(b) /\ b.name # selected.name
    IN  SelectSeq(reg, other)

\* one entry of the log of backend searches
Call(b, use_proxy, ran) ==
    [backend |-> b.name, use_proxy |-> use_proxy, proxies |-> ran.proxies,
     attempts |-> ran.attempts, waits |-> ran.waits, sent |-> ran.sent, out |-> ran.out]

Did(ret, log) == [ret |-> ret, calls |-> log]

\* the fallback test without "and backend is None"
FallbackForExplicitToo(c, backend, out) ==
    out.kind = "error" /\ c.enable_fallback

\* whether the fallback branch is entered after the first search
FallbackWanted(c, backend, out) ==
    out.kind = "error" /\ c.enable_fallback /\ backend = None

\* the first search with an exception of its own handled as an error outcome,
\* so that the fallback hop follows it
ExecuteCatchingPrimary(reg, c, query, backend, use_proxy, selected, script1, script2) ==
    LET up1 == PrimaryUseProxy(c, selected, use_proxy)
        ran1 == BackendSearch(selected,
                              SearchParams(query.keywords, query.max_results, query.region, up1),
                              script1[selected.name])
        out1 == IF ran1.out.kind = "raise" THEN Error(<<ran1.out.msg>>) ELSE ran1.out
        log1 == <<Call(selected, up1, ran1)>>
        cands == FallbackCandidates(reg, selected)
    IN  IF FallbackWanted(c, backend, out1) /\ cands # <<>>
        THEN LET fb == cands[1]
                 up2 == FallbackUseProxy(c, fb, use_proxy)
                 ran2 == BackendSearch(fb,
                                       SearchParams(query.keywords, query.max_results,
                                                    query.region, up2),
                                       script2[fb.name])
             IN  Did(ran2.out, log1 \o <<Call(fb, up2, ran2)>>)
        ELSE Did(ran1.out, log1)

\* lines 188-208: the first search and the fallback hop
Execute(reg, c, query, backend, use_proxy, selected, script1, script2) ==
    LET up1 == PrimaryUseProxy(c, selected, use_proxy)
        ran1 == BackendSearch(selected,
                              SearchParams(query.keywords, query.max_results, query.region, up1),
                              script1[selected.name])
        log1 == <<Call(selected, up1, ran1)>>
        cands == FallbackCandidates(reg, selected)
    IN  IF ran1.out.kind = "raise" THEN Did(ran1.out, log1)
        ELSE IF FallbackWanted(c, backend, ran1.out) /\ cands # <<>>
        THEN LET fb == cands[1]
                 up2 == FallbackUseProxy(c, fb, use_proxy)
                 ran2 == BackendSearch(fb,
                                       SearchParams(query.keywords, query.max_results,
                                                    query.region, up2),
                                       script2[fb.name])
             IN  Did(ran2.out, log1 \o <<Call(fb, up2, ran2)>>)
        ELSE Did(ran1.out, log1)

\* the explicit-backend check without the is_available test
RejectUnknownOnly(reg, backend) ==
    IF ~InRegistry(reg, backend)
    THEN <<Error(<<"Backend '", backend, "' is not available. Check configuration.">>)>>
    ELSE <<>>

\* lines 158-162: the error an explicit backend name is turned away with, if any
ExplicitRejection(reg, backend) ==
    IF ~InRegistry(reg, backend)
    THEN <<Error(<<"Backend '", backend, "' is not available. Check configuration.">>)>>
    ELSE IF ~is_available(Lookup(reg, backend))
    THEN <<Error(<<"Backend '", backend, "' is not available. Check API key configuration.">>)>>
    ELSE <<>>

\* the body of the try block of search_engine_query
QueryBody(reg, c, query, backend, use_proxy, script1, script2) ==
    IF Truthy(backend)
    THEN LET rejected == ExplicitRejection(reg, backend)
         IN  IF rejected # <<>> THEN Did(rejected[1], <<>>)
             ELSE Execute(reg, c, query, backend, use_proxy, Lookup(reg, backend), script1, script2)
    ELSE LET sel == _select_backend(reg, c, backend)
         IN  IF sel.kind = "raise" THEN Did(sel, <<>>)
             ELSE Execute(reg, c, query, backend, use_proxy, sel.backend, script1, script2)

\* the try block without its except clause
CatchNothing(did) == did

\* except Exception as e: return {"error": f"Search execution failed: {str(e)}"}
CatchAll(did) ==
    IF did.ret.kind = "raise"
    THEN Did(Error(<<"Search execution failed: ", did.ret.msg>>), did.calls)
    ELSE did

search_engine_query(reg, c, query, backend, use_proxy, script1, script2) ==
    CatchAll(QueryBody(reg, c, query, backend, use_proxy, script1, script2))

\* last_error is empty until a backend failed, then holds the text of the failure
NoError == <<>>

\* str(e) of the exception a search raised
Str(msg) == <<msg>>

\* f"{last_error}"
Format(last_error) == IF last_error = NoError THEN <<"None">> ELSE last_error[1]

\* the two tests of the loop with the second one left out
FallbackSkipsUnknownOnly(reg, backend_name) == ~InRegistry(reg, backend_name)

\* lines 240-245: the name is not in self.backends, or its backend is not available
FallbackSkips(reg, backend_name) ==
    \/ ~InRegistry(reg, backend_name)
    \/ ~is_available(Lookup(reg, backend_name))

RECURSIVE FallbackLoop(_, _, _, _, _, _, _)

\* lines 239-269: the loop over the names from position i on, and the return
\* after it; scripts[i] is what the providers do while name i is searched
FallbackLoop(reg, query, names, scripts, i, last_error, log) ==
    IF i > Len(names)
    THEN Did(Error(<<"All backends failed. Last error: ", Format(last_error)>>), log)
    ELSE IF FallbackSkips(reg, names[i])
    THEN FallbackLoop(reg, query, names, scripts, i + 1, last_error, log)
    ELSE LET b == Lookup(reg, names[i])
             ran == BackendSearch(b, SearchParams(query.keywords, query.max_results,
                                                  query.region, FALSE),
                                  scripts[i][b.name])
             log2 == Append(log, Call(b, FALSE, ran))
         IN  IF ran.out.kind = "raise"
             THEN FallbackLoop(reg, query, names, scripts, i + 1, <<Str(ran.out.msg)>>, log2)
             ELSE IF ran.out.kind = "error"
             THEN FallbackLoop(reg, query, names, scripts, i + 1, <<ran.out.error>>, log2)
             ELSE Did(ran.out, log2)

\* WebSearchAPI.search_with_fallback; backends is NoArg, or <<names>> for a list
search_with_fallback(reg, query, backends_arg, scripts) ==
    LET names == IF backends_arg = NoArg THEN get_available_backends(reg)
                 ELSE backends_arg[1]
    IN  FallbackLoop(reg, query, names, scripts, 1, NoError, <<>>)

(***************************************************************************)
(* fetch_url_content                                                       *)
(*                                                                         *)
(* A URL is a text cut so that its scheme is its first piece. The body of  *)
(* a response is the sequence of the elements of its HTML, each with its   *)
(* tag and its text (and its href for a link).                             *)
(***************************************************************************)

\* the one GET does one of three things: a response arrives with a success
\* status ("ok"), with an error status, so that raise_for_status raises
\* ("status"), or requests.get raises ("raise")

FETCH_TIMEOUT == 20

\* any text but the empty one taken for a URL
ValidUrlAnyScheme(url) == url # <<>>

\* url.startswith(("http://", "https://"))
ValidUrl(url) == url # <<>> /\ url[1] \in {"http://", "https://"}

\* strip() of a text: the blanks around it are the pieces " "
RECURSIVE Strip(_)
Strip(text) ==
    IF text = <<>> THEN text
    ELSE IF Head(text) = " " THEN Strip(Tail(text))
    ELSE IF text[Len(text)] = " " THEN Strip(SubSeq(text, 1, Len(text) - 1))
    ELSE text

\* html2text.HTML2Text().handle(text): headings marked, links written out,
\* scripts and styles left out
Markdown(body) ==
    LET shown(el) == el.tag \notin {"script", "style"}
        kept == SelectSeq(body, shown)
    IN  [i \in DOMAIN kept |->
            CASE kept[i].tag = "h1" -> <<"# ">> \o Strip(kept[i].text)
              [] kept[i].tag = "a" -> <<"[">> \o Strip(kept[i].text) \o <<"](", kept[i].href, ")">>
              [] OTHER -> Strip(kept[i].text)]

\* lines 65-72: scripts and styles extracted, then get_text(separator="\n",
\* strip=True): the stripped texts that are not empty, one to a line
Truncate(body) ==
    LET shown(el) == el.tag \notin {"script", "style"} /\ Strip(el.text) # <<>>
        kept == SelectSeq(body, shown)
    IN  [i \in DOMAIN kept |-> Strip(kept[i].text)]

Fetched(content) == [kind |-> "content", content |-> content]

\* the branch on the mode with every unknown mode handled as raw
ProcessRawByDefault(mode, body) ==
    CASE mode = "markdown" -> Fetched(Markdown(body))
      [] mode = "truncate" -> Fetched(Truncate(body))
      [] OTHER -> Fetched(body)

\* lines 55-75: the branch on the mode, once the response has arrived
Process(mode, body) ==
    CASE mode = "raw" -> Fetched(body)
      [] mode = "markdown" -> Fetched(Markdown(body))
      [] mode = "truncate" -> Fetched(Truncate(body))
      [] OTHER -> Error(<<"Unsupported mode: ", mode>>)

\* the function of web_search_legacy.py; got is what the GET does if it is made
fetch_url_content(url, mode, got) ==
    IF IsNone(url)
    THEN Ran(Raise("'NoneType' object has no attribute 'startswith'"), 0, <<>>, NoProxies,
             NotSent)
    ELSE IF ~ValidUrl(url)
    THEN Ran(Error(<<"Invalid URL: ", url>>), 0, <<>>, NoProxies, NotSent)
    ELSE LET sent == <<[url |-> url, timeout |-> FETCH_TIMEOUT, allow_redirects |-> TRUE]>>
         IN  IF got.r = "ok"
             THEN Ran(Process(mode, got.body), 1, <<>>, NoProxies, sent)
             ELSE Ran(Error(<<"An error occurred while fetching ", url, ": ", got.text>>),
                      1, <<>>, NoProxies, sent)

\* WebSearchAPI.fetch_url_content(url, mode="raw")
api_fetch_url_content(url, mode_arg, got) ==
    fetch_url_content(url, IF mode_arg = NoArg THEN "raw" ELSE mode_arg[1], got)

(***************************************************************************)
(* Inputs                                                                  *)
(***************************************************************************)

EnvStates ==
    [SERPAPI_API_KEY : {None, "serp-key"},
     YDC_API_KEY : {None, "", "ydc-key"},
     BRIGHTDATA_USERNAME : {None, "env-user"},
     BRIGHTDATA_PASSWORD : {None, "env-pw"},
     BRIGHTDATA_HOST : {None},
     BRIGHTDATA_PORT : {None}]

\* the config mappings handed to WebSearchAPI(config) and _load_scenario(config)
PreferredParts ==
    {EmptyDict} \cup {[preferred_backend |-> n] : n \in BackendNames \cup {"bing"}}
FallbackParts == {EmptyDict, [enable_fallback |-> FALSE]}
ProxyParts ==
    {EmptyDict,
     [proxy_config |-> [username |-> "cfg-user", host |-> "test.proxy.com"]],
     [proxy_config |-> [password |-> ""]],
     [proxy_config |-> [username |-> "", password |-> "cfg-pw"]]}

Overrides == {a @@ b @@ c : a \in PreferredParts, b \in FallbackParts, c \in ProxyParts}

\* the backend argument of search_engine_query and _select_backend
BackendArgs == {None, ""} \cup BackendNames \cup {"bing"}
UseProxyArgs == {NoArg, <<TRUE>>, <<FALSE>>}

\* the query of the facade's callers: search_engine_query(keywords) with the
\* defaults of its signature
DEFAULT_MAX_RESULTS == 10
DEFAULT_REGION == "wt-wt"
DefaultQuery ==
    [keywords |-> "q", max_results |-> DEFAULT_MAX_RESULTS, region |-> DEFAULT_REGION]

\* the results a provider holds: the i-th result in the form of each provider
MaxItems == 3
Text(prefix, i) == prefix \o ToString(i)
DDGDiv(i) ==
    [title |-> Text("Title ", i), href |-> Text("https://example.com/", i),
     snippet |-> Text("Description ", i)]
SerpItem(i) ==
    [title |-> Text("Title ", i), link |-> Text("https://example.com/", i),
     snippet |-> Text("Description ", i)]
YouComWeb(i) ==
    [title |-> Text("Title ", i), url |-> Text("https://example.com/", i),
     snippet |-> Text("Description ", i)]
YouComNews(i) ==
    [title |-> Text("News ", i), url |-> Text("https://news.example.com/", i),
     description |-> Text("Report ", i)]

\* a mapping without one of its keys
Without(d, key) == [k \in DOMAIN d \ {key} |-> d[k]]

\* the first n results, and result lists whose first result lacks something
DDGDivs(n) == [i \in 1..n |-> DDGDiv(i)]
SerpItems(n) == [i \in 1..n |-> SerpItem(i)]
YouComWebs(n) == [i \in 1..n |-> YouComWeb(i)]
YouComNewses(n) == [i \in 1..n |-> YouComNews(i)]

DDGDefective ==
    {<<Without(DDGDiv(1), "title"), DDGDiv(2)>>,
     <<Without(Without(DDGDiv(1), "href"), "snippet"), DDGDiv(2)>>,
     <<DDGDiv(1) @@ [raises |-> TRUE], DDGDiv(2)>>}
SerpDefective ==
    {<<Without(SerpItem(1), k), SerpItem(2)>> : k \in {"title", "link", "snippet"}}
YouComDefective ==
    {<<Without(Without(Without(YouComWeb(1), "title"), "url"), "snippet"), YouComWeb(2)>>,
     <<[YouComWeb(1) EXCEPT !.snippet = ""] @@ [description |-> "Fallback 1"]>>}

\* the responses of DuckDuckGo to one requests.get
Page(divs) == [r |-> "page", divs |-> divs]
Transport(u) == [r |-> "transport", u |-> u]
OtherException == [r |-> "other"]

DDGEndings ==
    {Page(DDGDivs(n)) : n \in 0..MaxItems} \cup {Page(d) : d \in DDGDefective}
    \cup {OtherException}

\* k transport failures, then the ending for every later attempt
DDGScript(k, u, ending) ==
    [i \in 1..DEFAULT_MAX_RETRIES |->
        IF i <= k THEN Transport((u + i) % TicksPerUnit) ELSE ending]

DDGScripts ==
    {DDGScript(k, u, e) : k \in 0..DEFAULT_MAX_RETRIES, u \in Draws, e \in DDGEndings}

\* the responses of SerpAPI to one get_dict()
Thrown(text, u) == [r |-> "raise", text |-> text, u |-> u]
Body(body, u) == [r |-> "body", body |-> body, u |-> u]

RateLimitThrown(u) == Thrown(<<"HTTP ", "429", " Too Many Requests">>, u)
RateLimitBody(u) == Body([error |-> <<"429", " rate limit exceeded">>], u)

SerpEndings ==
    {Thrown(<<"API Error: Invalid request">>, 0),
     Body([error |-> <<"Invalid API key">>], 0),
     Body(EmptyDict, 0),
     Body([error |-> <<"Partial results">>, organic_results |-> SerpItems(1)], 0)}
    \cup {Body([organic_results |-> SerpItems(n)], 0) : n \in 0..MaxItems}
    \cup {Body([organic_results |-> d], 0) : d \in SerpDefective}

\* the rate-limit signals SerpAPI gives before it answers: n of them, thrown,
\* in the body, or the two in turn
MaxRateLimited == 8
RateLimitKinds == {"thrown", "body", "alternate"}
RateLimited(n, how, u) ==
    [i \in 1..n |->
        IF how = "thrown" \/ (how = "alternate" /\ i % 2 = 1)
        THEN RateLimitThrown((u + i) % TicksPerUnit)
        ELSE RateLimitBody((u + i) % TicksPerUnit)]

SerpScripts ==
    {RateLimited(n, how, u) \o tail :
        n \in 0..MaxRateLimited, how \in RateLimitKinds, u \in Draws,
        tail \in {<<>>} \cup {<<e>> : e \in SerpEndings}}

\* the responses of You.com to its one request
Json(data) == [r |-> "json", data |-> data]

YouComBodies ==
    {[results |-> [web |-> YouComWebs(w), news |-> YouComNewses(n)]] :
        w \in 0..MaxItems, n \in 0..(MaxItems - 1)}
    \cup {[results |-> [web |-> d]] : d \in YouComDefective}
    \cup {EmptyDict, [results |-> [news |-> YouComNewses(1)]]}

YouComScripts ==
    {<<Json(d)>> : d \in YouComBodies} \cup {<<Transport(0)>>, <<OtherException>>}

\* what the providers do during one search, per backend
Script(first, rest) == [i \in 1..DEFAULT_MAX_RETRIES |-> IF i = 1 THEN first ELSE rest]

ProviderScripts ==
    <<[duckduckgo |-> Script(Page(DDGDivs(2)), Page(DDGDivs(2))),
       serpapi    |-> <<Body([organic_results |-> SerpItems(2)], 0)>>,
       youcom     |-> <<Json([results |-> [web |-> YouComWebs(1), news |-> YouComNewses(1)]])>>],
      [duckduckgo |-> Script(Transport(0), Transport(1)),
       serpapi    |-> <<Thrown(<<"API Error: Invalid request">>, 0)>>,
       youcom     |-> <<Transport(0)>>],
      [duckduckgo |-> Script(OtherException, Page(DDGDivs(2))),
       serpapi    |-> <<Body(EmptyDict, 0)>>,
       youcom     |-> <<Json([results |-> [web |-> <<>>, news |-> <<>>]])>>],
      [duckduckgo |-> Script(Transport(0), Page(DDGDivs(2))),
       serpapi    |-> <<Body([organic_results |-> <<Without(SerpItem(1), "title")>>], 0)>>,
       youcom     |-> <<OtherException>>],
      [duckduckgo |-> Script(Transport(0), OtherException),
       serpapi    |-> RateLimited(MaxRateLimited, "alternate", 0)
                      \o <<Body([organic_results |-> SerpItems(2)], 0)>>,
       youcom     |-> <<Json([results |-> [web |-> YouComWebs(1), news |-> YouComNewses(1)]])>>]>>

(***************************************************************************)
(* Actions                                                                 *)
(***************************************************************************)

Idle == [op |-> "idle"]
Nothing == [kind |-> "none"]

\* WebSearchAPI.__init__
Construct(e, cfg) ==
    LET c == ParseConfig(e, cfg)
    IN  /\ config = c
        /\ backends = Registry(create_backends(e, c))
        /\ api_show_snippet = c.show_snippet

Init ==
    /\ env \in EnvStates
    /\ \E cfg \in Overrides : Construct(env, cfg)
    /\ request = Idle
    /\ calls = <<>>
    /\ result = Nothing

\* _load_scenario keeping the preferred backend of the configuration it replaces
\* when the new mapping names none
LoadScenarioKeeping(configs) ==
    /\ request = Idle
    /\ \E cfg \in configs :
          LET parsed == ParseConfig(env, cfg)
              c == IF Has(cfg, "preferred_backend") THEN parsed
                   ELSE [parsed EXCEPT !.preferred_backend = config.preferred_backend]
          IN  /\ config' = c
              /\ backends' = Registry(create_backends(env, c))
              /\ api_show_snippet' = c.show_snippet
    /\ UNCHANGED <<env, request, calls, result>>

\* WebSearchAPI._load_scenario
LoadScenarioFrom(configs) ==
    /\ request = Idle
    /\ \E cfg \in configs :
          LET c == ParseConfig(env, cfg)
          IN  /\ config' = c
              /\ backends' = Registry(create_backends(env, c))
              /\ api_show_snippet' = c.show_snippet
    /\ UNCHANGED <<env, request, calls, result>>

LoadScenario == LoadScenarioFrom(Overrides)

\* WebSearchAPI.search_engine_query
SearchEngineQuery ==
    /\ request = Idle
    /\ \E backend \in BackendArgs, use_proxy \in UseProxyArgs, k1 \in DOMAIN ProviderScripts :
          LET probe == search_engine_query(backends, config, DefaultQuery, backend, use_proxy,
                                           ProviderScripts[k1], ProviderScripts[1])
          IN  \E k2 \in (IF Len(probe.calls) = 2 THEN DOMAIN ProviderScripts ELSE {1}) :
                 LET did == search_engine_query(backends, config, DefaultQuery, backend, use_proxy,
                                                ProviderScripts[k1], ProviderScripts[k2])
                 IN  /\ request' = [op |-> "search_engine_query", backend |-> backend,
                                    use_proxy |-> use_proxy]
                     /\ calls' = did.calls
                     /\ result' = did.ret
    /\ UNCHANGED <<env, config, api_show_snippet, backends>>

\* WebSearchAPI._select_backend called on its own
SelectBackend ==
    /\ request = Idle
    /\ \E backend_name \in BackendArgs :
          /\ request' = [op |-> "_select_backend", backend_name |-> backend_name]
          /\ result' = _select_backend(backends, config, backend_name)
    /\ calls' = <<>>
    /\ UNCHANGED <<env, config, api_show_snippet, backends>>

\* the caller takes the value the call returned
Return ==
    /\ request # Idle
    /\ request' = Idle
    /\ calls' = <<>>
    /\ result' = Nothing
    /\ UNCHANGED <<env, config, api_show_snippet, backends>>

\* search called on a backend of the registry directly
BackendSearchDirect ==
    /\ request = Idle
    /\ \E i \in DOMAIN backends, use_proxy \in BOOLEAN, k \in DOMAIN ProviderScripts :
          LET b == backends[i]
              ran == BackendSearch(b, SearchParams(DefaultQuery.keywords,
                                                   DefaultQuery.max_results,
                                                   DefaultQuery.region, use_proxy),
                                   ProviderScripts[k][b.name])
          IN  /\ request' = [op |-> "search", backend |-> b.name, use_proxy |-> <<use_proxy>>]
              /\ calls' = <<Call(b, use_proxy, ran)>>
              /\ result' = ran.out
    /\ UNCHANGED <<env, config, api_show_snippet, backends>>

Next ==
    \/ LoadScenario
    \/ SearchEngineQuery
    \/ SelectBackend
    \/ BackendSearchDirect
    \/ Return

Spec == Init /\ [][Next]_vars

(***************************************************************************)
(* The facade with its registry replaced by hand, as the tests do          *)
(* (api.backends = {...}): any set of backends, in any order, each         *)
(* configured or not.                                                      *)
(***************************************************************************)

NoEnv ==
    [SERPAPI_API_KEY |-> None, YDC_API_KEY |-> None, BRIGHTDATA_USERNAME |-> None,
     BRIGHTDATA_PASSWORD |-> None, BRIGHTDATA_HOST |-> None, BRIGHTDATA_PORT |-> None]

PlainOverrides == {a @@ b : a \in PreferredParts, b \in FallbackParts}

Instances(e, c) ==
    {DuckDuckGoBackend(c.proxy_config, c.show_snippet)}
    \cup {SerpApiBackend(e, k, c.show_snippet) : k \in {None, "serp-key"}}
    \cup {YouComBackend(e, k, c.show_snippet) : k \in {None, "ydc-key"}}

HandMadeRegistries(e, c) ==
    {reg \in UNION {[1..n -> Instances(e, c)] : n \in 0..Cardinality(BackendNames)} :
        \A i, j \in DOMAIN reg : reg[i].name = reg[j].name => i = j}

InitHandMade ==
    /\ env = NoEnv
    /\ \E cfg \in PlainOverrides : Construct(env, cfg)
    /\ request = Idle
    /\ calls = <<>>
    /\ result = Nothing

LoadScenarioPlain == LoadScenarioFrom(PlainOverrides)

\* api.backends = {...}
AssignBackends ==
    /\ request = Idle
    /\ \E reg \in HandMadeRegistries(env, config) : backends' = Registry(reg)
    /\ UNCHANGED <<env, config, api_show_snippet, request, calls, result>>

NextHandMade ==
    \/ LoadScenarioPlain
    \/ AssignBackends
    \/ SearchEngineQuery
    \/ SelectBackend
    \/ Return

SpecHandMade == InitHandMade /\ [][NextHandMade]_vars

(***************************************************************************)
(* The backends called directly, as their tests do (SerpApiBackend() and   *)
(* backend.search("test query", 3, "wt-wt")): any instance, any            *)
(* arguments, any behaviour of the provider.                               *)
(***************************************************************************)

KeysEnv == [NoEnv EXCEPT !.SERPAPI_API_KEY = "serp-key", !.YDC_API_KEY = "ydc-key"]
BackendEnvs == {NoEnv, KeysEnv}

DirectProxyConfigs ==
    {EmptyDict,
     [username |-> "test_user", password |-> "test_pass", host |-> "test.proxy.com",
      port |-> 8080]}

\* the instances a caller can construct in environment e
DirectInstances(e) ==
    {DuckDuckGoBackend(pc, s) : pc \in DirectProxyConfigs, s \in BOOLEAN}
    \cup {SerpApiBackend(e, k, s) : k \in {None, "", "arg-key"}, s \in BOOLEAN}
    \cup {YouComBackend(e, k, s) : k \in {None, "", "arg-key"}, s \in BOOLEAN}

\* keywords and region of a search: null, empty, whitespace-only and plain ones
KeywordRegions == {<<None, None>>, <<"", "wt-wt">>, <<" ", "us-en">>, <<"q", "wt-wt">>}
MaxResultsArgs == (0 - MaxItems - 1)..(MaxItems + 1)

DirectParams(name) ==
    {SearchParams(kr[1], m, kr[2], up) :
        kr \in KeywordRegions, m \in MaxResultsArgs,
        up \in (IF name = "duckduckgo" THEN BOOLEAN ELSE {FALSE})}

ScriptsFor(name) ==
    CASE name = "duckduckgo" -> DDGScripts
      [] name = "serpapi" -> SerpScripts
      [] OTHER -> YouComScripts

InitBackends ==
    /\ env \in BackendEnvs
    /\ Construct(env, EmptyDict)
    /\ request = Idle
    /\ calls = <<>>
    /\ result = Nothing

\* backend.search(keywords, max_results, region, use_proxy=...) on an instance
BackendSearchCall ==
    /\ request = Idle
    /\ \E b \in DirectInstances(env) :
          \E p \in DirectParams(b.name), script \in ScriptsFor(b.name) :
             LET ran == BackendSearch(b, p, script)
             IN  /\ request' = [op |-> "backend.search", instance |-> b, params |-> p,
                                script |-> script]
                 /\ calls' = <<Call(b, p.use_proxy, ran)>>
                 /\ result' = ran.out
    /\ UNCHANGED <<env, config, api_show_snippet, backends>>

ContentUrls == {<<>>, <<"https://example.com/1">>}
ContentResponses == {Json([content |-> "<html>"]), Transport(0), OtherException}

\* YouComBackend.get_content(urls) on an instance
GetContent ==
    /\ request = Idle
    /\ \E b \in DirectInstances(env), urls \in ContentUrls, got \in ContentResponses :
          /\ b.name = "youcom"
          /\ LET ran == get_content(b, urls, got)
             IN  /\ request' = [op |-> "get_content", instance |-> b, urls |-> urls,
                                script |-> <<got>>]
                 /\ calls' = <<Call(b, FALSE, ran)>>
                 /\ result' = ran.out
    /\ UNCHANGED <<env, config, api_show_snippet, backends>>

NextBackends ==
    \/ BackendSearchCall
    \/ GetContent
    \/ Return

SpecBackends == InitBackends /\ [][NextBackends]_vars

(***************************************************************************)
(* SearchConfig on its own, as its tests use it: the environment holds any *)
(* proxy settings, SearchConfig(config) is constructed from any mapping,   *)
(* and the API keys of the environment change between the calls of         *)
(* get_available_backends() and create_backends() on the configuration     *)
(* made at the start.                                                      *)
(***************************************************************************)

\* the environments of the configuration tests: proxy variables unset, set and
\* corrupted, and WEB_SEARCH_PREFERRED_BACKEND, which the tests set
ProxyCredentials ==
    {<<None, None>>, <<None, "env_pass">>, <<"env_user", "env_pass">>}

ConfigEnvs ==
    {[SERPAPI_API_KEY |-> serp, YDC_API_KEY |-> ydc,
      BRIGHTDATA_HOST |-> host, BRIGHTDATA_PORT |-> port,
      BRIGHTDATA_USERNAME |-> cred[1], BRIGHTDATA_PASSWORD |-> cred[2],
      WEB_SEARCH_PREFERRED_BACKEND |-> preferred] :
        serp \in {None, "serp-key"}, ydc \in {None, "", "ydc-key"},
        host \in {None, "env.proxy.com"},
        port \in {None, "9999", " 8080\n", "-1", "invalid_port", ""},
        cred \in ProxyCredentials,
        preferred \in {None, "youcom", "invalid_backend"}}

\* the mappings handed to SearchConfig(config)
ConfigOverrides ==
    {EmptyDict,
     [preferred_backend |-> "serpapi"],
     [show_snippet |-> TRUE, custom_field |-> "should_not_be_used"],
     [proxy_config |-> EmptyDict],
     [proxy_config |-> [host |-> "partial.override.com"]],
     [proxy_config |-> [host |-> "override.proxy.com", port |-> 8081,
                        username |-> "override_user"]],
     [proxy_config |-> [host |-> None, port |-> None, username |-> None,
                        password |-> "override_pass"]],
     [proxy_config |-> [port |-> 8081], preferred_backend |-> "duckduckgo",
      show_snippet |-> FALSE]}

InitConfig ==
    /\ env \in ConfigEnvs
    /\ Construct(env, EmptyDict)
    /\ request = Idle
    /\ calls = <<>>
    /\ result = Nothing

\* os.environ[...] = key, del os.environ[...] on the API keys
SetEnv ==
    /\ request = Idle
    /\ \E serp \in {None, "serp-key"}, ydc \in {None, "", "ydc-key"} :
          /\ env' = [env EXCEPT !.SERPAPI_API_KEY = serp, !.YDC_API_KEY = ydc]
          /\ env' # env
    /\ UNCHANGED <<config, api_show_snippet, backends, request, calls, result>>

\* SearchConfig(config)
NewSearchConfig ==
    /\ request = Idle
    /\ \E cfg \in ConfigOverrides :
          /\ request' = [op |-> "SearchConfig", config |-> cfg]
          /\ result' = [kind |-> "config", value |-> ParseConfig(env, cfg)]
    /\ calls' = <<>>
    /\ UNCHANGED <<env, config, api_show_snippet, backends>>

\* config.get_available_backends()
ConfigGetAvailableBackends ==
    /\ request = Idle
    /\ request' = [op |-> "config.get_available_backends"]
    /\ result' = [kind |-> "names", names |-> config_get_available_backends(env)]
    /\ calls' = <<>>
    /\ UNCHANGED <<env, config, api_show_snippet, backends>>

\* config.create_backends()
ConfigCreateBackends ==
    /\ request = Idle
    /\ request' = [op |-> "config.create_backends"]
    /\ result' = [kind |-> "backends", list |-> create_backends(env, config)]
    /\ calls' = <<>>
    /\ UNCHANGED <<env, config, api_show_snippet, backends>>

NextConfig ==
    \/ SetEnv
    \/ NewSearchConfig
    \/ ConfigGetAvailableBackends
    \/ ConfigCreateBackends
    \/ Return

SpecConfig == InitConfig /\ [][NextConfig]_vars

(***************************************************************************)
(* search_with_fallback on a facade made in any environment of API keys,   *)
(* with any list of names, known or not, and without a list; every search  *)
(* it makes meets providers that behave in any of the ways of              *)
(* ProviderScripts.                                                        *)
(***************************************************************************)

FallbackEnvs ==
    {[NoEnv EXCEPT !.SERPAPI_API_KEY = serp, !.YDC_API_KEY = ydc] :
        serp \in {None, "serp-key"}, ydc \in {None, "ydc-key"}}

\* the lists a caller passes: names of the registry, repeated or not, and
\* names it does not hold
MaxNames == 3
NameLists == UNION {[1..n -> BackendNames \cup {"bing"}] : n \in 0..MaxNames}
BackendsArgs == {NoArg} \cup {<<names>> : names \in NameLists}

InitFallback ==
    /\ env \in FallbackEnvs
    /\ Construct(env, EmptyDict)
    /\ request = Idle
    /\ calls = <<>>
    /\ result = Nothing

\* api.search_with_fallback(keywords, backends=...)
SearchWithFallbackFrom(args) ==
    /\ request = Idle
    /\ \E backends_arg \in args :
          LET n == IF backends_arg = NoArg THEN Len(backends) ELSE Len(backends_arg[1])
          IN  \E ks \in [1..n -> DOMAIN ProviderScripts] :
                 LET scripts == [i \in 1..n |-> ProviderScripts[ks[i]]]
                     did == search_with_fallback(backends, DefaultQuery, backends_arg, scripts)
                 IN  /\ request' = [op |-> "search_with_fallback", backends |-> backends_arg,
                                    scripts |-> scripts]
                     /\ calls' = did.calls
                     /\ result' = did.ret
    /\ UNCHANGED <<env, config, api_show_snippet, backends>>

SearchWithFallback == SearchWithFallbackFrom(BackendsArgs)

NextFallback ==
    \/ SearchWithFallback
    \/ Return

SpecFallback == InitFallback /\ [][NextFallback]_vars

(***************************************************************************)
(* fetch_url_content called with any URL, any mode and any behaviour of    *)
(* the server                                                              *)
(***************************************************************************)

Urls ==
    {<<"https://", "example.com">>, <<"http://", "example.com/page">>, <<"https://">>,
     <<"ftp://", "example.com">>, <<"HTTPS://", "example.com">>, <<"example.com">>,
     <<" ", "https://", "example.com">>, <<>>}

ModeArgs == {NoArg} \cup {<<m>> : m \in {"raw", "markdown", "truncate", "invalid_mode", "RAW", "", None}}

Bodies ==
    {<<>>,
     <<[tag |-> "h1", text |-> <<" ", "Title">>],
       [tag |-> "script", text |-> <<"track()">>],
       [tag |-> "p", text |-> <<"Hello", " ">>]>>,
     <<[tag |-> "style", text |-> <<"p {}">>],
       [tag |-> "p", text |-> <<" ">>],
       [tag |-> "a", text |-> <<"next">>, href |-> "https://example.com/2"]>>}

FetchOutcomes ==
    {[r |-> "ok", body |-> body] : body \in Bodies}
    \cup {[r |-> "status", text |-> <<code, " Error">>] : code \in {"404", "500"}}
    \cup {[r |-> "raise", text |-> <<text>>] : text \in {"Connection refused", "Read timed out"}}

\* api.fetch_url_content(url, mode)
FetchCall(url, mode_arg, got) ==
    LET ran == api_fetch_url_content(url, mode_arg, got)
    IN  /\ request' = [op |-> "fetch_url_content", url |-> url, mode |-> mode_arg,
                       got |-> got]
        /\ calls' = <<[attempts |-> ran.attempts, sent |-> ran.sent, out |-> ran.out]>>
        /\ result' = ran.out

\* the URL is a text, or null
FetchUrlContent ==
    /\ request = Idle
    /\ \E mode_arg \in ModeArgs, got \in FetchOutcomes :
          \/ \E url \in Urls : FetchCall(url, mode_arg, got)
          \/ FetchCall(None, mode_arg, got)
    /\ UNCHANGED <<env, config, api_show_snippet, backends>>

NextFetch ==
    \/ FetchUrlContent
    \/ Return

SpecFetch == InitFallback /\ [][NextFetch]_vars

(***************************************************************************)
(* Several DuckDuckGoBackend.search calls in progress at once on the       *)
(* duckduckgo backend of one facade, as the threads of the concurrency     *)
(* tests make them.  Each call has a frame with its arguments and the      *)
(* local variables of search; a step of the specification is one iteration *)
(* of the for loop of one call up to its sleep, or the end of one sleep.   *)
(* The frames are kept in request.                                         *)
(***************************************************************************)

Callers == 2

\* the locals of a call read from the first frame, as if attempt and backoff
\* were attributes of the backend
LocalsOfFirst(frames, i) ==
    [frames[i] EXCEPT !.attempt = frames[1].attempt, !.backoff = frames[1].backoff]

\* the variables an iteration of call i reads: attempt, backoff and the rest are
\* locals of search, one set to a call
Locals(frames, i) == frames[i]

\* lines 83-86: the frame of a call that has reached its for loop
DDGFrame(p, script) ==
    [params |-> p, script |-> script, attempt |-> 0, backoff |-> DEFAULT_RETRY_BACKOFF,
     waits |-> <<>>, pc |-> "get", attempts |-> 0, out |-> Nothing]

\* lines 86-136: one iteration of the for loop, up to the return or the sleep
DDGIteration(b, f) ==
    LET got == f.script[f.attempt + 1]
        made == [f EXCEPT !.attempts = f.attempt + 1]
    IN  CASE got.r = "page" ->
               [made EXCEPT !.pc = "done",
                            !.out = ResultList(b.name, DDGParse(b, got.divs, f.params.max_results))]
          [] got.r = "transport" ->
               IF DDGRetries(f.attempt)
               THEN [made EXCEPT !.pc = "sleep",
                                 !.waits = Append(f.waits,
                                     Slept(f.backoff, f.backoff * TicksPerUnit
                                                      + DDGJitter(f.backoff, got.u)))]
               ELSE [made EXCEPT !.pc = "done",
                                 !.out = Error(<<"Failed to fetch DuckDuckGo results after ",
                                                 ToString(DEFAULT_MAX_RETRIES), " attempts: ",
                                                 "transport">>)]
          [] OTHER ->
               [made EXCEPT !.pc = "done",
                            !.out = DDGOtherException(b, f.params, f.script, f.attempt,
                                                      f.backoff, f.waits).out]

\* lines 130-132: the sleep is over, the backoff doubles and the loop goes on
DDGWake(f) ==
    [f EXCEPT !.backoff = Min(f.backoff * 2, MAX_RETRY_BACKOFF),
              !.attempt = f.attempt + 1,
              !.pc = "get"]

\* what the servers do to the calls in progress
ConcurrentScripts ==
    {DDGScript(k, u, ending) :
        k \in 0..DEFAULT_MAX_RETRIES, u \in {0},
        ending \in {Page(DDGDivs(1)), Page(DDGDivs(2)), OtherException}}

InConcurrent == request.op = "concurrent"

\* the threads call search on the same backend, each with its own arguments
ConcurrentStart ==
    /\ request = Idle
    /\ InRegistry(backends, "duckduckgo")
    /\ \E scripts \in [1..Callers -> ConcurrentScripts] :
          request' = [op |-> "concurrent",
                      instance |-> Lookup(backends, "duckduckgo"),
                      frames |-> [i \in 1..Callers |->
                                     DDGFrame(SearchParams(Text("query ", i), i, DEFAULT_REGION,
                                                           FALSE),
                                              scripts[i])]]
    /\ UNCHANGED <<env, config, api_show_snippet, backends, calls, result>>

\* one call makes its next request and handles what comes back
ConcurrentIteration ==
    /\ InConcurrent
    /\ \E i \in 1..Callers :
          /\ request.frames[i].pc = "get"
          /\ request' = [request EXCEPT
                            !.frames[i] = DDGIteration(request.instance,
                                                       Locals(request.frames, i))]
    /\ UNCHANGED <<env, config, api_show_snippet, backends, calls, result>>

\* the sleep of one call ends
ConcurrentWake ==
    /\ InConcurrent
    /\ \E i \in 1..Callers :
          /\ request.frames[i].pc = "sleep"
          /\ request' = [request EXCEPT !.frames[i] = DDGWake(Locals(request.frames, i))]
    /\ UNCHANGED <<env, config, api_show_snippet, backends, calls, result>>

\* every thread has its result
ConcurrentJoin ==
    /\ InConcurrent
    /\ \A i \in 1..Callers : request.frames[i].pc = "done"
    /\ request' = Idle
    /\ UNCHANGED <<env, config, api_show_snippet, backends, calls, result>>

NextConcurrent ==
    \/ ConcurrentStart
    \/ ConcurrentIteration
    \/ ConcurrentWake
    \/ ConcurrentJoin

SpecConcurrent == InitFallback /\ [][NextConcurrent]_vars

(***************************************************************************)
(* The whole facade over its lifetime: made in some environment, its       *)
(* scenario loaded again at will, every operation called in any order,     *)
(* while the API keys of the environment change under it.                  *)
(***************************************************************************)

FacadeOverrides ==
    PlainOverrides
    \cup {[show_snippet |-> FALSE],
          [proxy_config |-> [username |-> "cfg-user", password |-> "cfg-pw"]],
          [show_snippet |-> FALSE, preferred_backend |-> "youcom", enable_fallback |-> FALSE]}

\* search_with_fallback with no list, the empty one, or one name
ShortBackendsArgs ==
    {NoArg, <<<<>>>>} \cup {<<<<name>>>> : name \in BackendNames \cup {"bing"}}

InitFacade ==
    /\ env \in FallbackEnvs
    /\ \E cfg \in FacadeOverrides : Construct(env, cfg)
    /\ request = Idle
    /\ calls = <<>>
    /\ result = Nothing

LoadScenarioFacade == LoadScenarioFrom(FacadeOverrides)

SearchWithFallbackShort == SearchWithFallbackFrom(ShortBackendsArgs)

\* get_available_backends that drops from the registry what is not available
GetAvailableBackendsPruning ==
    /\ request = Idle
    /\ request' = [op |-> "get_available_backends"]
    /\ result' = [kind |-> "names", names |-> get_available_backends(backends)]
    /\ calls' = <<>>
    /\ backends' = SelectSeq(backends, is_available)
    /\ UNCHANGED <<env, config, api_show_snippet>>

\* api.get_available_backends()
GetAvailableBackends ==
    /\ request = Idle
    /\ request' = [op |-> "get_available_backends"]
    /\ result' = [kind |-> "names", names |-> get_available_backends(backends)]
    /\ calls' = <<>>
    /\ UNCHANGED <<env, config, api_show_snippet, backends>>

NextFacade ==
    \/ SetEnv
    \/ LoadScenarioFacade
    \/ SearchEngineQuery
    \/ SearchWithFallbackShort
    \/ FetchUrlContent
    \/ GetAvailableBackends
    \/ ConfigGetAvailableBackends
    \/ SelectBackend
    \/ BackendSearchDirect
    \/ Return

SpecFacade == InitFacade /\ [][NextFacade]_vars

(***************************************************************************)
(* One SerpApiBackend.search followed step by step: the provider call, the *)
(* handling of its response, the sleep. Nothing counts its attempts.       *)
(***************************************************************************)

InSerpSearch == request.op = "serpapi.search"

\* what the provider may answer to a call
SerpAnswers ==
    {RateLimitThrown(u) : u \in Draws} \cup {RateLimitBody(u) : u \in Draws}
    \cup SerpEndings

\* search is called: the is_available test, backoff = 2 and params
SerpStart ==
    /\ request = Idle
    /\ \E b \in DirectInstances(env), m \in MaxResultsArgs :
          /\ b.name = "serpapi"
          /\ LET p == SearchParams("q", m, DEFAULT_REGION, FALSE)
                 ran == SerpSearch(b, p, <<>>)
             IN  /\ request' = [op |-> "serpapi.search", instance |-> b, params |-> p,
                                pc |-> IF ran.out.kind = "running" THEN "call" ELSE "done",
                                backoff |-> SERP_RETRY_BACKOFF, response |-> <<>>,
                                wait |-> <<>>]
                 /\ result' = ran.out
    /\ UNCHANGED <<env, config, api_show_snippet, backends, calls>>

\* GoogleSearch(params).get_dict() returns or raises
ProviderAnswers ==
    /\ InSerpSearch
    /\ request.pc = "call"
    /\ \E got \in SerpAnswers :
          request' = [request EXCEPT !.pc = "handle", !.response = <<got>>]
    /\ UNCHANGED <<env, config, api_show_snippet, backends, calls, result>>

\* the rest of the loop body for the response in hand, up to time.sleep or to
\* the return
SerpHandle ==
    /\ InSerpSearch
    /\ request.pc = "handle"
    /\ LET step == SerpLoop(request.instance, request.params, request.response, 1,
                            request.backoff, <<>>)
       IN  /\ result' = step.out
           /\ request' = IF step.out.kind = "running"
                         THEN [request EXCEPT !.pc = "sleep", !.backoff = step.backoff,
                                              !.wait = step.waits]
                         ELSE [request EXCEPT !.pc = "done"]
    /\ UNCHANGED <<env, config, api_show_snippet, backends, calls>>

\* time.sleep(wait_time) returns and the loop continues
SerpWake ==
    /\ InSerpSearch
    /\ request.pc = "sleep"
    /\ request' = [request EXCEPT !.pc = "call", !.response = <<>>, !.wait = <<>>]
    /\ UNCHANGED <<env, config, api_show_snippet, backends, calls, result>>

\* the caller takes the value search returned or the exception it raised
SerpReturn ==
    /\ InSerpSearch
    /\ request.pc = "done"
    /\ Return

NextSerpLoop ==
    \/ SerpStart
    \/ ProviderAnswers
    \/ SerpHandle
    \/ SerpWake
    \/ SerpReturn

\* a provider call ends, by a response or an exception, and the code between
\* two blocking calls runs on
SpecSerpLoop ==
    /\ InitBackends
    /\ [][NextSerpLoop]_vars
    /\ WF_vars(ProviderAnswers)
    /\ WF_vars(SerpHandle)
    /\ WF_vars(SerpWake)

(***************************************************************************)
(* Properties                                                              *)
(***************************************************************************)

IsQuery == request.op = "search_engine_query"
IsSelect == request.op = "_select_backend"

Registered(name) == \E i \in DOMAIN backends : backends[i].name = name
Instance(name) == backends[CHOOSE i \in DOMAIN backends : backends[i].name = name]
Configured(name) ==
    /\ Registered(name)
    /\ \/ name = "duckduckgo"
       \/ name # "duckduckgo" /\ Instance(name).api_key \notin {None, ""}

\* the positions of the registry a fallback after a search on `primary` may use
OtherAvailable(primary) ==
    {i \in DOMAIN backends : backends[i].name # primary /\ Configured(backends[i].name)}

\* what the caller gets for the value a backend search ended with
Surfaced(out) ==
    IF out.kind = "raise" THEN Error(<<"Search execution failed: ", out.msg>>) ELSE out

\* C1: with backend=None and fallback enabled, when the primary search returns an
\* error and another available backend is registered, exactly one more search is
\* made, on the first available backend of the registry that is not the primary,
\* and its outcome is the result; a request never makes a third search.
C1_SingleFallbackHop ==
    IsQuery =>
        /\ Len(calls) <= 2
        /\ (/\ request.backend = None
            /\ config.enable_fallback
            /\ Len(calls) >= 1
            /\ calls[1].out.kind = "error"
            /\ OtherAvailable(calls[1].backend) # {})
           => LET first == CHOOSE i \in OtherAvailable(calls[1].backend) :
                               \A j \in OtherAvailable(calls[1].backend) : i <= j
              IN  /\ Len(calls) = 2
                  /\ calls[2].backend = backends[first].name
                  /\ calls[2].backend # calls[1].backend
                  /\ Configured(calls[2].backend)
                  /\ result = Surfaced(calls[2].out)

\* C1 happens: primary and fallback both return an error while a third
\* available backend is registered and is not searched
C1_Witness ==
    /\ IsQuery
    /\ request.backend = None
    /\ Len(calls) = 2
    /\ calls[1].out.kind = "error"
    /\ calls[2].out.kind = "error"
    /\ result = calls[2].out
    /\ Cardinality(OtherAvailable(calls[1].backend)) = 2

\* C2: with an explicit backend name, when that backend's search returns an
\* error, no other backend is searched and the result is that error, whatever
\* enable_fallback is and whatever else is available.
C2_ExplicitNoFallback ==
    (IsQuery /\ Truthy(request.backend)) =>
        /\ Len(calls) <= 1
        /\ \A i \in DOMAIN calls : calls[i].backend = request.backend
        /\ (Len(calls) = 1 /\ calls[1].out.kind = "error") => result = calls[1].out

C2_Witness ==
    /\ IsQuery
    /\ Truthy(request.backend)
    /\ config.enable_fallback
    /\ Len(calls) = 1
    /\ calls[1].out.kind = "error"
    /\ result = calls[1].out
    /\ OtherAvailable(request.backend) # {}

\* C3: an explicit backend name that is not registered, or is registered but not
\* available, ends the request with an error saying the backend is not
\* available, and no backend is searched.
C3_ExplicitUnavailableRejected ==
    (IsQuery /\ Truthy(request.backend) /\ ~Configured(request.backend)) =>
        /\ calls = <<>>
        /\ result.kind = "error"
        /\ Len(result.error) = 3
        /\ result.error[1] = "Backend '"
        /\ result.error[2] = request.backend
        /\ result.error[3] \in {"' is not available. Check configuration.",
                                "' is not available. Check API key configuration."}

C3_Witness ==
    /\ IsQuery
    /\ Truthy(request.backend)
    /\ Registered(request.backend)
    /\ ~Configured(request.backend)
    /\ OtherAvailable(request.backend) # {}
    /\ result.kind = "error"
    /\ calls = <<>>

\* C4: search_engine_query never raises: it returns a result list or an error
\* outcome, and an exception of the selection step or of a backend search comes
\* back as the error 'Search execution failed: <message>'.
C4_NeverRaises ==
    IsQuery =>
        /\ result.kind \in {"list", "error"}
        /\ (calls # <<>> /\ calls[Len(calls)].out.kind = "raise")
              => result = Error(<<"Search execution failed: ", calls[Len(calls)].out.msg>>)
        /\ (~Truthy(request.backend) /\ backends = <<>>)
              => result = Error(<<"Search execution failed: ", "No search backends available">>)

C4_Witness ==
    /\ IsQuery
    /\ Len(calls) = 1
    /\ calls[1].out.kind = "raise"
    /\ result.kind = "error"

C6_PriorityOrder ==
    (/\ IsSelect
     /\ ~Truthy(request.backend_name)
     /\ ~(Truthy(config.preferred_backend) /\ Registered(config.preferred_backend)))
    => IF Configured("serpapi") THEN result = Selected(Instance("serpapi"))
       ELSE IF Configured("youcom") THEN result = Selected(Instance("youcom"))
       ELSE IF Registered("duckduckgo") THEN result = Selected(Instance("duckduckgo"))
       ELSE result.kind = "raise"

C6_Witness ==
    /\ IsSelect
    /\ request.backend_name = None
    /\ config.preferred_backend = "bing"
    /\ Registered("serpapi")
    /\ ~Configured("serpapi")
    /\ Configured("youcom")
    /\ Registered("duckduckgo")
    /\ result.kind = "backend"
    /\ result.backend.name = "youcom"

\* C7: _select_backend returns the explicitly named backend whenever it is
\* registered, else the preferred backend whenever it is registered, available
\* or not; the explicit name wins over the preferred one.
C7_ExplicitThenPreferred ==
    IsSelect =>
        IF Truthy(request.backend_name) /\ Registered(request.backend_name)
        THEN result = Selected(Instance(request.backend_name))
        ELSE (Truthy(config.preferred_backend) /\ Registered(config.preferred_backend))
                => result = Selected(Instance(config.preferred_backend))

C7_Witness ==
    /\ IsSelect
    /\ Truthy(request.backend_name)
    /\ Registered(request.backend_name)
    /\ ~Configured(request.backend_name)
    /\ Truthy(config.preferred_backend)
    /\ config.preferred_backend # request.backend_name
    /\ Configured(config.preferred_backend)
    /\ result.kind = "backend"
    /\ result.backend.name = request.backend_name

\* both proxy credentials of a proxy config are present and non-empty
HasCredentials(pc) ==
    /\ "username" \in DOMAIN pc /\ pc.username \notin {None, ""}
    /\ "password" \in DOMAIN pc /\ pc.password \notin {None, ""}

ProxyUrl(pc) ==
    <<"http://", pc.username, ":", pc.password, "@", pc.host, ":", ToString(pc.port)>>

DDGCalls == {i \in DOMAIN calls : calls[i].backend = "duckduckgo"}

\* C8: a DuckDuckGo search attaches proxies to its request if and only if
\* use_proxy is true and username and password are both non-empty; the proxy URL,
\* for http and https alike, is http://{username}:{password}@{host}:{port}; with
\* use_proxy true and a credential missing the request is still made, directly,
\* and the only errors are those of the request itself.
C8_ProxyOnlyWithCredentials ==
    \A i \in DDGCalls :
        LET pc == Instance("duckduckgo").proxy_config
        IN  /\ (calls[i].proxies # NoProxies) <=> (calls[i].use_proxy /\ HasCredentials(pc))
            /\ calls[i].proxies # NoProxies
                  => calls[i].proxies = <<[http |-> ProxyUrl(pc), https |-> ProxyUrl(pc)]>>
            /\ (calls[i].use_proxy /\ ~HasCredentials(pc))
                  => /\ calls[i].attempts >= 1
                     /\ calls[i].out.kind \in {"list", "error"}
                     /\ calls[i].out.kind = "error"
                           => calls[i].out.error[1] \in
                                 {"Failed to fetch DuckDuckGo results after ",
                                  "Unexpected error while processing DuckDuckGo results: "}

\* C8 happens: a search with the proxy attached, its URL built from a config
\* that overrides the host
C8_Witness ==
    \E i \in DDGCalls :
        /\ calls[i].use_proxy
        /\ calls[i].proxies # NoProxies
        /\ calls[i].proxies[1].https[6] = "test.proxy.com"
        /\ calls[i].out.kind = "list"

\* C9 as claimed: the use_proxy value handed to the selected backend is the
\* caller's value when given; otherwise it is true exactly when the selected
\* backend is duckduckgo and both username and password are configured.
C9_Claimed_AutoProxyNeedsBothCredentials ==
    (IsQuery /\ calls # <<>>) =>
        calls[1].use_proxy =
            IF request.use_proxy # NoArg
            THEN request.use_proxy[1]
            ELSE calls[1].backend = "duckduckgo" /\ HasCredentials(config.proxy_config)

\* C10 as claimed: the fallback search gets its use_proxy value the way the
\* first search does: the caller's value when given, the auto-detected value for
\* the fallback backend otherwise.
C10_Claimed_FallbackProxyLikePrimary ==
    (IsQuery /\ Len(calls) = 2) =>
        calls[2].use_proxy =
            IF request.use_proxy # NoArg
            THEN request.use_proxy[1]
            ELSE calls[2].backend = "duckduckgo"
                 /\ config.proxy_config.username \notin {None, ""}

(***************************************************************************)
(* Properties of the backends called directly                              *)
(***************************************************************************)

IsSearch == request.op = "backend.search"
IsGetContent == request.op = "get_content"

\* an instance that needs an API key and holds none, or an empty one
Unavailable(b) == b.name # "duckduckgo" /\ b.api_key \in {None, ""}

\* C11: a search, or a get_content of youcom, on a backend whose is_available()
\* is false returns an error whose text contains 'not configured', and makes no
\* provider call: no request is sent and nothing is waited for.
C11_UnavailableNotConfigured ==
    ((IsSearch \/ IsGetContent) /\ Unavailable(request.instance)) =>
        /\ result.kind = "error"
        /\ Contains(result.error, "not configured")
        /\ calls[1].attempts = 0
        /\ calls[1].sent = NotSent
        /\ calls[1].waits = <<>>

\* C11 happens: a SerpApiBackend built without a key anywhere is searched while
\* the provider would have answered with results
C11_Witness ==
    /\ IsSearch
    /\ request.instance.name = "serpapi"
    /\ request.instance.api_key = None
    /\ request.script = <<Body([organic_results |-> SerpItems(2)], 0)>>
    /\ request.params.max_results = 2
    /\ result.kind = "error"
    /\ calls[1].attempts = 0

\* the response that ended the search: the last one the backend asked for
LastResponse == request.script[calls[1].attempts]

\* the search was answered, by a page, a body with organic_results and no error,
\* or a JSON body with its web and news lists; the results are well formed, w of
\* them and, from You.com, k news results after them
Answered(w, k) ==
    /\ IsSearch
    /\ calls[1].attempts >= 1
    /\ calls[1].attempts <= Len(request.script)
    /\ CASE request.instance.name = "duckduckgo" ->
              k = 0 /\ LastResponse = Page(DDGDivs(w))
         [] request.instance.name = "serpapi" ->
              k = 0 /\ LastResponse = Body([organic_results |-> SerpItems(w)], 0)
         [] OTHER ->
              LastResponse = Json([results |-> [web |-> YouComWebs(w),
                                                news |-> YouComNewses(k)]])

AnsweredWith(n) == \E w \in 0..n : Answered(w, n - w)

\* C12 as claimed: a search with max_results <= 0 that the provider answers
\* successfully returns the empty result list, for each of the three backends.
C12_Claimed_NonPositiveEmpty ==
    \A n \in 0..(2 * MaxItems) :
        (AnsweredWith(n) /\ request.params.max_results <= 0)
            => (result.kind = "list" /\ result.items = <<>>)

\* a result as the caller gets it, with its body when the instance shows snippets
Shown(title, href, body) ==
    IF request.instance.show_snippet
    THEN [title |-> title, href |-> href, body |-> body]
    ELSE [title |-> title, href |-> href]

\* the i-th result of a provider that holds w results and then news results
Expected(i, w) ==
    IF i <= w
    THEN Shown(Text("Title ", i), Text("https://example.com/", i), Text("Description ", i))
    ELSE Shown(Text("News ", i - w), Text("https://news.example.com/", i - w),
               Text("Report ", i - w))

\* C13: a search with max_results = m > 0 that the provider answers with n >= 1
\* well-formed results returns a list of exactly the first min(m, n) of them in
\* the provider's order, for You.com the web results before the news results:
\* never more than m, never padded, never an error because m > n.
C13_FirstMinResults ==
    \A w, k \in 0..MaxItems :
        (Answered(w, k) /\ w + k >= 1 /\ request.params.max_results > 0)
            => /\ result.kind = "list"
               /\ Len(result.items) = Min(request.params.max_results, w + k)
               /\ \A i \in DOMAIN result.items : result.items[i] = Expected(i, w)

\* C13 happens: You.com holds two web results and one news result and more
\* results are asked for than it holds
C13_Witness ==
    /\ Answered(2, 1)
    /\ request.instance.name = "youcom"
    /\ request.params.max_results > 3
    /\ result.kind = "list"
    /\ Len(result.items) = 3
    /\ result.items[3].title = "News 1"

\* C14 as claimed: whatever the keywords, the region and the provider's response,
\* results lacking a title, a link or a snippet included, a search that ends
\* ends with a result list or an error outcome: it never raises and never
\* returns null.
C14_Claimed_ListOrError ==
    (IsSearch /\ result.kind # "running") => result.kind \in {"list", "error"}

IsDDGSearch == IsSearch /\ request.instance.name = "duckduckgo"

\* attempts 1..k of the search all fail with a transport error
TransportFailures(k) == \A i \in 1..k : request.script[i].r = "transport"

\* C15: a DuckDuckGo search makes at most 3 HTTP attempts. When every attempt
\* fails with a transport error it makes exactly 3 attempts and exactly 2 waits
\* (none after the last failure, no fourth attempt) and returns an error that
\* tells the attempt count 3. When attempt k <= 3 is the first to succeed it
\* makes exactly k attempts, with k - 1 waits, and returns the results parsed
\* from that attempt's page.
C15_AtMostThreeAttempts ==
    IsDDGSearch =>
        /\ calls[1].attempts \in 1..3
        /\ TransportFailures(3)
              => /\ calls[1].attempts = 3
                 /\ Len(calls[1].waits) = 2
                 /\ result = Error(<<"Failed to fetch DuckDuckGo results after ", "3",
                                     " attempts: ", "transport">>)
        /\ \A k \in 1..3 :
              (TransportFailures(k - 1) /\ request.script[k].r = "page")
                 => /\ calls[1].attempts = k
                    /\ Len(calls[1].waits) = k - 1
                    /\ result.kind = "list"
                    /\ \A n \in 1..MaxItems :
                          (request.script[k] = Page(DDGDivs(n))
                           /\ request.params.max_results >= n)
                             => /\ Len(result.items) = n
                                /\ \A i \in 1..n : result.items[i] = Expected(i, n)

\* C15 happens: three transport failures in a row
C15_Witness ==
    /\ IsDDGSearch
    /\ TransportFailures(3)
    /\ calls[1].attempts = 3
    /\ Len(calls[1].waits) = 2
    /\ result.kind = "error"

\* C15 happens: the third attempt succeeds after two failures
C15_ThirdAttemptSucceeds ==
    /\ IsDDGSearch
    /\ TransportFailures(2)
    /\ request.script[3] = Page(DDGDivs(2))
    /\ request.params.max_results = 2
    /\ calls[1].attempts = 3
    /\ Len(result.items) = 2

\* 1, 2, 4, ...: the i-th term of the doubling from 1
RECURSIVE Doubled(_)
Doubled(i) == IF i <= 1 THEN 1 ELSE 2 * Doubled(i - 1)

\* C16: in a DuckDuckGo search the base wait before the i-th retry is 1 unit for
\* the first retry and doubles for each later one (1, then 2), never exceeds 30
\* units, and the actual wait is the base plus a jitter that is at least 0 and
\* below 1 unit.
C16_BackoffAndJitter ==
    IsDDGSearch =>
        \A i \in DOMAIN calls[1].waits :
            LET w == calls[1].waits[i]
            IN  /\ w.base = Doubled(i)
                /\ w.base <= 30
                /\ w.wait_time >= w.base * TicksPerUnit
                /\ w.wait_time < (w.base + 1) * TicksPerUnit

\* C16 happens: a second retry, after a wait with base 2 and a jitter above 0
C16_Witness ==
    /\ IsDDGSearch
    /\ Len(calls[1].waits) = 2
    /\ calls[1].waits[1].base = 1
    /\ calls[1].waits[2].base = 2
    /\ calls[1].waits[2].wait_time > 2 * TicksPerUnit
    /\ calls[1].attempts = 3

\* C17: in a DuckDuckGo search an exception that is not a transport exception,
\* on whichever attempt it is raised, ends the search at once with an error
\* outcome: that attempt is the last and no wait follows it.
C17_OtherExceptionEndsSearch ==
    IsDDGSearch =>
        \A k \in 1..3 :
            (TransportFailures(k - 1) /\ request.script[k].r = "other")
                => /\ calls[1].attempts = k
                   /\ Len(calls[1].waits) = k - 1
                   /\ result = Error(<<"Unexpected error while processing DuckDuckGo results: ",
                                       "other">>)

\* C17 happens: the second attempt, made after a transport failure and a wait,
\* raises something else while a third attempt would have failed the same way
C17_Witness ==
    /\ IsDDGSearch
    /\ request.script[1].r = "transport"
    /\ request.script[2].r = "other"
    /\ request.script[3].r = "other"
    /\ calls[1].attempts = 2
    /\ Len(calls[1].waits) = 1
    /\ result.kind = "error"

(***************************************************************************)
(* Properties of the SerpAPI search followed step by step                  *)
(***************************************************************************)

\* a rate-limit signal: a thrown error whose text holds 429, or a body whose
\* error field holds 429
RateLimitSignal(got) ==
    \/ got.r = "raise" /\ \E i \in DOMAIN got.text : got.text[i] = "429"
    \/ /\ got.r = "body"
       /\ "error" \in DOMAIN got.body
       /\ \E i \in DOMAIN got.body.error : got.body.error[i] = "429"

\* the search holds a response it has not handled yet
Handling == InSerpSearch /\ request.pc = "handle"
HandlingSignal == Handling /\ RateLimitSignal(request.response[1])
HandlingAnswer == Handling /\ ~RateLimitSignal(request.response[1])
Calling == InSerpSearch /\ request.pc = "call"
Ended == InSerpSearch /\ request.pc = "done"

\* C18: a SerpAPI search calls the provider again after every response that is a
\* rate-limit signal (thrown, or in the body's error field), however many came
\* before, and leaves the loop at the first response that is not one; so a
\* search in progress ends exactly when the provider answers with a response
\* that is not a rate-limit signal, and goes on calling until then.
C18_RetriesWhileRateLimited ==
    /\ [][(HandlingSignal => request'.pc = "sleep")
          /\ (HandlingAnswer => request'.pc = "done")
          /\ ((InSerpSearch /\ request.pc = "sleep") => request'.pc = "call")
          /\ ((InSerpSearch /\ request.pc # "done" /\ request'.pc = "done")
                 => HandlingAnswer)]_vars
    /\ (HandlingSignal ~> Calling)
    /\ (HandlingAnswer ~> Ended)

\* C18 happens: the provider is called again after six rate-limit signals and
\* more, the backoff having reached its cap
C18_Witness ==
    /\ Calling
    /\ request.backoff = 120

(***************************************************************************)
(* Properties of the SerpAPI search as a whole                             *)
(***************************************************************************)

\* a search on a SerpApiBackend that holds a key
IsSerpSearch == IsSearch /\ request.instance.name = "serpapi" /\ ~Unavailable(request.instance)

\* responses 1..k of the provider are all rate-limit signals
RateLimitSignals(k) == \A i \in 1..k : RateLimitSignal(request.script[i])

\* an error of the provider that is no rate-limit signal: a thrown error, or a
\* body that holds an error and no results
ProviderError(got) ==
    /\ ~RateLimitSignal(got)
    /\ \/ got.r = "raise"
       \/ got.r = "body" /\ "error" \in DOMAIN got.body
                         /\ "organic_results" \notin DOMAIN got.body

\* C19: in a SerpAPI search a provider error that is not a rate-limit signal,
\* as the first response or after rate-limited attempts, returns at once as an
\* error outcome: that provider call is the last and no wait follows it.
C19_OtherErrorReturnsAtOnce ==
    IsSerpSearch =>
        \A i \in DOMAIN request.script :
            (RateLimitSignals(i - 1) /\ ProviderError(request.script[i]))
                => /\ calls[1].attempts = i
                   /\ Len(calls[1].waits) = i - 1
                   /\ result.kind = "error"
                   /\ request.script[i].r = "raise"
                         => result = Error(request.script[i].text)

\* C19 happens: the provider throws an error without 429 after two rate-limited
\* attempts
C19_Witness ==
    /\ IsSerpSearch
    /\ Len(request.script) = 3
    /\ RateLimitSignals(2)
    /\ request.script[3].r = "raise"
    /\ calls[1].attempts = 3
    /\ Len(calls[1].waits) = 2
    /\ result = Error(<<"API Error: Invalid request">>)

\* C20: in a SerpAPI search the base backoff of the first wait is 2 units, it
\* doubles after every rate-limited attempt and never exceeds 120 units (2, 4, 8,
\* 16, 32, 64, 120, 120, ...), the same for signals thrown and signals in the
\* body; every search starts from 2 again.
C20_SerpBackoffSequence ==
    IsSerpSearch =>
        /\ Len(calls[1].waits) = Cardinality({i \in DOMAIN request.script :
                                                 RateLimitSignals(i)})
        /\ \A i \in DOMAIN calls[1].waits :
              /\ calls[1].waits[i].base = (IF i <= 6 THEN 2 * Doubled(i) ELSE 120)
              /\ calls[1].waits[i].base <= 120

\* C20 happens: eight rate-limited attempts, thrown and in the body in turn,
\* with the bases 64, 120 and 120 before the last three waits
C20_Witness ==
    /\ IsSerpSearch
    /\ Len(calls[1].waits) = 8
    /\ request.script[1].r = "raise"
    /\ request.script[2].r = "body"
    /\ calls[1].waits[1].base = 2
    /\ calls[1].waits[6].base = 64
    /\ calls[1].waits[7].base = 120
    /\ calls[1].waits[8].base = 120

(***************************************************************************)
(* Properties of the answers without results                               *)
(***************************************************************************)

\* a body of the provider that is no rate-limit signal and holds no
\* organic_results
NoOrganicResults(got) ==
    /\ got.r = "body"
    /\ ~RateLimitSignal(got)
    /\ "organic_results" \notin DOMAIN got.body

\* C21: in a SerpAPI search a response of the provider that is no rate-limit
\* signal and whose body lacks organic_results yields the error outcome 'Failed
\* to retrieve the search results from server. ...': the search raises nothing
\* and returns no result list, empty or not.
C21_NoOrganicResultsIsError ==
    IsSerpSearch =>
        \A i \in DOMAIN request.script :
            (RateLimitSignals(i - 1) /\ NoOrganicResults(request.script[i]))
                => /\ calls[1].attempts = i
                   /\ result.kind \notin {"raise", "list"}
                   /\ result = Error(<<"Failed to retrieve the search results from server. Please try again later.">>)

\* C21 happens: the provider answers {"error": "Invalid API key"} to the first
\* call of a search for more results than any answer holds
C21_Witness ==
    /\ IsSerpSearch
    /\ request.script = <<Body([error |-> <<"Invalid API key">>], 0)>>
    /\ request.params.max_results = MaxItems + 1
    /\ calls[1].attempts = 1
    /\ result.kind = "error"

\* a search on a YouComBackend that holds a key
IsYouComSearch == IsSearch /\ request.instance.name = "youcom" /\ ~Unavailable(request.instance)

\* C22: a You.com search whose answer holds no web and no news result returns
\* the error outcome 'No search results found'; when it holds some, the search
\* returns a result list, for a positive max_results the web results followed by
\* the news results up to max_results of them. A DuckDuckGo or SerpAPI search
\* whose answer holds no result returns the empty result list.
C22_YouComNoResultsIsError ==
    /\ (IsYouComSearch /\ (Answered(0, 0) \/ request.script = <<Json(EmptyDict)>>))
          => result = Error(<<"No search results found">>)
    /\ \A w \in 0..MaxItems, k \in 0..MaxItems :
          (IsYouComSearch /\ Answered(w, k) /\ w + k > 0)
             => /\ result.kind = "list"
                /\ request.params.max_results > 0
                      => result.items = [i \in 1..Min(request.params.max_results, w + k)
                                            |-> Expected(i, w)]
    /\ (Answered(0, 0) /\ request.instance.name \in {"duckduckgo", "serpapi"})
          => (result.kind = "list" /\ result.items = <<>>)

\* C22 happens: You.com answers {"results": {"web": [], "news": []}}
C22_Witness ==
    /\ IsYouComSearch
    /\ request.script = <<Json([results |-> [web |-> <<>>, news |-> <<>>]])>>
    /\ request.params.max_results = MaxItems
    /\ result.kind = "error"

\* C22 happens on the other side: You.com answers with one news result and no
\* web result, and SerpAPI and DuckDuckGo each with no result
C22_NewsOnly ==
    /\ IsYouComSearch
    /\ Answered(0, 1)
    /\ request.params.max_results = 1
    /\ result.kind = "list"
    /\ Len(result.items) = 1

(***************************************************************************)
(* Properties of SearchConfig                                              *)
(***************************************************************************)

IsNewConfig == request.op = "SearchConfig"

\* the override mapping names key k of proxy_config with a value that is not null
Overridden(k) ==
    /\ "proxy_config" \in DOMAIN request.config
    /\ k \in DOMAIN request.config.proxy_config
    /\ ToString(request.config.proxy_config[k]) # ToString(None)

\* the integer a port string of the environment stands for, the default port
\* for a string that is no integer and for no string at all
PortOf(s) ==
    CASE s = "9999" -> 9999
      [] s = " 8080\n" -> 8080
      [] s = "-1" -> 0 - 1
      [] OTHER -> 22225

\* C23: SearchConfig resolves proxy_config key by key: each of host, port,
\* username and password is the override's value when the override's
\* proxy_config names the key with a value that is not null, otherwise the
\* value of the environment, otherwise the default (host, port) or null
\* (username, password); a partial override erases no key it does not name.
C23_ProxyMergedPerKey ==
    IsNewConfig =>
        LET resolved == result.value.proxy_config
            given == request.config.proxy_config
        IN  /\ DOMAIN resolved = {"host", "port", "username", "password"}
            /\ resolved.host = (IF Overridden("host") THEN given.host
                                ELSE IF env.BRIGHTDATA_HOST # None THEN env.BRIGHTDATA_HOST
                                ELSE "brd.superproxy.io")
            /\ resolved.username = (IF Overridden("username") THEN given.username
                                    ELSE env.BRIGHTDATA_USERNAME)
            /\ resolved.password = (IF Overridden("password") THEN given.password
                                    ELSE env.BRIGHTDATA_PASSWORD)
            /\ resolved.port = (IF Overridden("port") THEN given.port
                                ELSE PortOf(env.BRIGHTDATA_PORT))

\* C23 happens: the override names the host only, the environment holds a
\* password, a port and no username
C23_Witness ==
    /\ IsNewConfig
    /\ request.config = [proxy_config |-> [host |-> "partial.override.com"]]
    /\ env.BRIGHTDATA_USERNAME = None
    /\ env.BRIGHTDATA_PASSWORD = "env_pass"
    /\ env.BRIGHTDATA_PORT = "9999"
    /\ result.value.proxy_config =
          [host |-> "partial.override.com", port |-> 9999, username |-> None,
           password |-> "env_pass"]

\* C23 happens with nulls: an override whose host, port and username are null
\* replaces the password only
C23_NullsKeepEnvironment ==
    /\ IsNewConfig
    /\ "proxy_config" \in DOMAIN request.config
    /\ DOMAIN request.config.proxy_config = {"host", "port", "username", "password"}
    /\ env.BRIGHTDATA_HOST = "env.proxy.com"
    /\ env.BRIGHTDATA_USERNAME = "env_user"
    /\ result.value.proxy_config.host = "env.proxy.com"
    /\ result.value.proxy_config.username = "env_user"
    /\ result.value.proxy_config.password = "override_pass"

\* C24 as claimed: when the environment variable WEB_SEARCH_PREFERRED_BACKEND is
\* set, the resolved preferred_backend is its value, whether or not the override
\* mapping names another one.
C24_Claimed_EnvPreferredWins ==
    (IsNewConfig /\ env.WEB_SEARCH_PREFERRED_BACKEND # None)
        => result.value.preferred_backend = env.WEB_SEARCH_PREFERRED_BACKEND

\* C25: for every value of BRIGHTDATA_PORT (unset, an integer string, a string
\* that is no integer) and an override that names no port, the construction of
\* SearchConfig raises nothing and the resolved port is an integer: the one the
\* string stands for, 22225 when it stands for none or is unset.
C25_PortParsedOrDefault ==
    (IsNewConfig /\ ~Overridden("port")) =>
        /\ result.kind = "config"
        /\ result.value.proxy_config.port = PortOf(env.BRIGHTDATA_PORT)
        /\ result.value.proxy_config.port \in Int

\* C25 happens: the port of the environment is corrupted and the override names
\* a host only
C25_Witness ==
    /\ IsNewConfig
    /\ env.BRIGHTDATA_PORT = "invalid_port"
    /\ request.config = [proxy_config |-> [host |-> "partial.override.com"]]
    /\ result.value.proxy_config.port = 22225

\* C25 happens with a port that parses
C25_ValidPort ==
    /\ IsNewConfig
    /\ env.BRIGHTDATA_PORT = " 8080\n"
    /\ request.config = EmptyDict
    /\ result.value.proxy_config.port = 8080

\* C26: the mapping a caller hands to WebSearchAPI(config) or to _load_scenario
\* stays as the caller made it, its nested proxy_config included: the mapping
\* the configuration holds (the caller's own, no copy) is at all times one of
\* the mappings callers hand over, key for key and value for value, and no
\* search, selection or return changes it.
C26_CallerMappingKept ==
    /\ [](config.config \in Overrides)
    /\ [][request' # request => config'.config = config.config]_vars

\* C26 happens: a search has run on a facade made from a mapping with a partial
\* proxy_config and the fallback switched off
C26_Witness ==
    /\ request.op = "search_engine_query"
    /\ config.config = [enable_fallback |-> FALSE,
                        proxy_config |-> [username |-> "cfg-user", host |-> "test.proxy.com"]]
    /\ config.proxy_config.port = 22225
    /\ result.kind = "list"

\* the names a listing or a creation of backends gave
Listed == {result.names[i] : i \in DOMAIN result.names}
Created == {result.list[i].name : i \in DOMAIN result.list}

\* an API key of the environment holds a value now (an empty one counts as none)
KeySet(key) == key # None /\ key # ""

\* C27: get_available_backends() and create_backends() of a SearchConfig read
\* the API keys of the environment when they are called, not when the
\* configuration was made: after any changes of the environment the listing
\* holds serpapi exactly when SERPAPI_API_KEY holds a value now, youcom exactly
\* when YDC_API_KEY holds a value now, and duckduckgo always; create_backends
\* creates duckduckgo and youcom always and serpapi exactly when SERPAPI_API_KEY
\* holds a value now.
C27_EnvironmentReadAtCallTime ==
    /\ request.op = "config.get_available_backends" =>
          /\ "serpapi" \in Listed <=> KeySet(env.SERPAPI_API_KEY)
          /\ "youcom" \in Listed <=> KeySet(env.YDC_API_KEY)
          /\ "duckduckgo" \in Listed
          /\ Listed \subseteq BackendNames
    /\ request.op = "config.create_backends" =>
          /\ "serpapi" \in Created <=> KeySet(env.SERPAPI_API_KEY)
          /\ {"duckduckgo", "youcom"} \subseteq Created
          /\ Created \subseteq BackendNames

\* C27 happens: the configuration was made while no SerpAPI key was set (the
\* registry built then holds no serpapi), the key is set since, and the listing
\* holds serpapi
C27_Witness ==
    /\ request.op = "config.get_available_backends"
    /\ ~InRegistry(backends, "serpapi")
    /\ env.SERPAPI_API_KEY = "serp-key"
    /\ "serpapi" \in Listed

\* C27 happens the other way: the key was set when the configuration was made
\* and is unset since, and create_backends creates no serpapi
C27_KeyRemoved ==
    /\ request.op = "config.create_backends"
    /\ InRegistry(backends, "serpapi")
    /\ env.SERPAPI_API_KEY = None
    /\ Created = {"duckduckgo", "youcom"}

(***************************************************************************)
(* Properties of search_with_fallback                                      *)
(***************************************************************************)

IsFallbackSearch == request.op = "search_with_fallback"
WithList == IsFallbackSearch /\ request.backends # NoArg

\* the name is one of the registry and its backend is available
Usable(name) ==
    \E i \in DOMAIN backends :
        /\ backends[i].name = name
        /\ (name = "duckduckgo" \/ backends[i].api_key \notin {None, ""})

\* the positions of the list whose name is usable, and the k-th of them
UsablePositions == {i \in DOMAIN request.backends[1] : Usable(request.backends[1][i])}
Position(k) ==
    CHOOSE i \in UsablePositions : Cardinality({j \in UsablePositions : j <= i}) = k

\* the search of a backend failed: an error outcome, or an exception
Failed(call) == call.out.kind \in {"error", "raise"}

\* the text of that failure
FailureOf(call) == IF call.out.kind = "raise" THEN <<call.out.msg>> ELSE call.out.error

\* C28: search_with_fallback with a list of names searches the usable names in
\* the order of the list and no other name: the k-th search is on the k-th
\* name of the list that is registered and available. Every search before the
\* last one failed (an error outcome or an exception). When the last search
\* succeeded its result is returned and no name after it is searched; when it
\* failed too, every usable name was searched and the outcome is the error 'All
\* backends failed. Last error: <e>', <e> being the failure of the last search.
\* No exception reaches the caller.
C28_FallbackInListOrder ==
    WithList =>
        /\ Len(calls) <= Cardinality(UsablePositions)
        /\ \A k \in DOMAIN calls :
              /\ calls[k].backend = request.backends[1][Position(k)]
              /\ calls[k].attempts >= 1
              /\ k < Len(calls) => Failed(calls[k])
        /\ result.kind \in {"list", "error"}
        /\ result.kind = "list" =>
              /\ calls # <<>>
              /\ result = calls[Len(calls)].out
        /\ result.kind = "error" =>
              /\ Len(calls) = Cardinality(UsablePositions)
              /\ \A k \in DOMAIN calls : Failed(calls[k])
              /\ result.error[1] = "All backends failed. Last error: "
              /\ calls # <<>> => result.error[2] = FailureOf(calls[Len(calls)])

\* C28 happens: of the list serpapi, youcom, duckduckgo the first raises, the
\* second returns an error and the third succeeds
C28_Witness ==
    /\ WithList
    /\ request.backends[1] = <<"serpapi", "youcom", "duckduckgo">>
    /\ Len(calls) = 3
    /\ calls[1].out.kind = "raise"
    /\ calls[2].out.kind = "error"
    /\ calls[3].backend = "duckduckgo"
    /\ result.kind = "list"

\* C28 happens with every search failing: the error of the last backend tried
\* is the one reported, an unknown name and an unavailable one being passed over
C28_AllFailed ==
    /\ WithList
    /\ request.backends[1] = <<"duckduckgo", "bing", "serpapi">>
    /\ ~Usable("serpapi")
    /\ Len(calls) = 1
    /\ calls[1].out.kind = "error"
    /\ result = Error(<<"All backends failed. Last error: ", calls[1].out.error>>)

\* C28 happens with a success in the middle: the names after it are not searched
C28_StopsAtSuccess ==
    /\ WithList
    /\ request.backends[1] = <<"youcom", "serpapi", "duckduckgo">>
    /\ Usable("youcom") /\ Usable("serpapi")
    /\ Len(calls) = 2
    /\ Failed(calls[1])
    /\ result.kind = "list"
    /\ result.from = "serpapi"

(***************************************************************************)
(* Properties of fetch_url_content                                         *)
(***************************************************************************)

IsFetch == request.op = "fetch_url_content"

\* the URL is a text (not null) ...
UrlIsText == ToString(request.url) # ToString(None)

\* ... that starts with http:// or https://
HttpUrl ==
    /\ UrlIsText
    /\ Len(request.url) >= 1
    /\ request.url[1] \in {"http://", "https://"}

\* the mode was given and is none of raw, markdown, truncate
UnsupportedMode ==
    /\ request.mode # NoArg
    /\ request.mode[1] \notin {"raw", "markdown", "truncate"}

\* C29: fetch_url_content with a URL that does not start with http:// or
\* https:// returns the error outcome 'Invalid URL: <url>' and issues no GET,
\* whatever the mode, an unrecognized one included.
C29_InvalidUrlNoGet ==
    (IsFetch /\ UrlIsText /\ ~HttpUrl) =>
        /\ result = Error(<<"Invalid URL: ", request.url>>)
        /\ calls[1].attempts = 0
        /\ calls[1].sent = NotSent

\* C29 happens: an ftp URL is fetched in a mode that does not exist, while the
\* server would have answered
C29_Witness ==
    /\ IsFetch
    /\ UrlIsText
    /\ request.url = <<"ftp://", "example.com">>
    /\ request.mode = <<"invalid_mode">>
    /\ request.got.r = "ok"
    /\ result.kind = "error"
    /\ calls[1].attempts = 0

\* C30 as claimed: with an http or https URL and a mode other than raw,
\* markdown and truncate the outcome is an error that names the unsupported
\* mode, whatever the GET does.
C30_Claimed_UnsupportedModeNamed ==
    (IsFetch /\ HttpUrl /\ UnsupportedMode) =>
        /\ result.kind = "error"
        /\ result.error[1] = "Unsupported mode: "
        /\ result.error[2] = request.mode[1]

\* C30, amended: with an http or https URL and a mode other than raw, markdown
\* and truncate the GET is issued first, once. When the response arrives with a
\* success status the outcome is the error 'Unsupported mode: <mode>'; when the
\* GET raises or the status is an error the outcome is the error 'An error
\* occurred while fetching <url>: <message>', which does not name the mode.
C30_UnsupportedModeAfterGet ==
    (IsFetch /\ HttpUrl /\ UnsupportedMode) =>
        /\ calls[1].attempts = 1
        /\ result.kind = "error"
        /\ request.got.r = "ok" =>
              result = Error(<<"Unsupported mode: ", request.mode[1]>>)
        /\ request.got.r # "ok" =>
              result = Error(<<"An error occurred while fetching ", request.url, ": ",
                               request.got.text>>)

\* C30 happens: the page arrives and the mode is unknown
C30_Witness ==
    /\ IsFetch
    /\ UrlIsText
    /\ request.url = <<"https://", "example.com">>
    /\ request.mode = <<"invalid_mode">>
    /\ request.got.r = "ok"
    /\ request.got.body # <<>>
    /\ result = Error(<<"Unsupported mode: ", "invalid_mode">>)

\* C30 happens with a failing GET: the connection is refused and the mode is
\* unknown
C30_TransportFailure ==
    /\ IsFetch
    /\ HttpUrl
    /\ request.mode = <<"invalid_mode">>
    /\ request.got.r = "raise"
    /\ result.error[1] = "An error occurred while fetching "

\* C31 as claimed: fetch_url_content issues one GET at most and never a second
\* one; a failure of the transport gives an error outcome that wraps the
\* message of the exception; and for every URL, a null one included, and every
\* mode the call returns a content or an error outcome and raises nothing.
C31_Claimed_FetchNeverRaises ==
    IsFetch =>
        /\ calls[1].attempts <= 1
        /\ Len(calls[1].sent) <= 1
        /\ (HttpUrl /\ request.got.r # "ok") =>
              result = Error(<<"An error occurred while fetching ", request.url, ": ",
                               request.got.text>>)
        /\ result.kind \in {"content", "error"}

(***************************************************************************)
(* Properties of concurrent searches                                       *)
(***************************************************************************)

\* what call i returns when it runs alone against the same responses
Alone(i) ==
    DDGSearch(request.instance, request.frames[i].params, request.frames[i].script)

FrameOperations ==
    {"search_engine_query", "search_with_fallback", "fetch_url_content",
     "get_available_backends", "search"}

\* C33: search_engine_query, search_with_fallback, fetch_url_content,
\* get_available_backends and the search of every backend leave the resolved
\* configuration (show_snippet, preferred_backend, enable_fallback,
\* proxy_config), the registry (its names, their order and its instances) and
\* the fields of every backend (api key, proxy config, snippet flag) as they
\* were, whether the operation succeeds or fails.
C33_OperationsKeepConfiguration ==
    [][request'.op \in FrameOperations =>
          /\ config' = config
          /\ backends' = backends
          /\ api_show_snippet' = api_show_snippet]_vars

\* C33 happens: a search with fallback over an unknown name has failed on a
\* facade whose registry holds three backends, youcom without a key
C33_Witness ==
    /\ request.op = "search_with_fallback"
    /\ request.backends = <<<<"bing">>>>
    /\ result.kind = "error"
    /\ Len(backends) = 3
    /\ ~is_available(Lookup(backends, "youcom"))
    /\ config.enable_fallback = FALSE

\* a step that is a _load_scenario: no call is begun or ended and the
\* environment stays
LoadStep == request' = request /\ env' = env

AvailableInOrder ==
    LET RECURSIVE from(_)
        from(i) == IF i > Len(backends) THEN <<>>
                   ELSE (IF backends[i].name = "duckduckgo"
                            \/ (~IsNone(backends[i].api_key) /\ backends[i].api_key # "")
                         THEN <<backends[i].name>> ELSE <<>>) \o from(i + 1)
    IN  from(1)

\* C35: whatever was constructed, loaded, searched or fetched, no two entries
\* of the registry have one name, duckduckgo and youcom are registered,
\* get_available_backends holds duckduckgo and lists the available registered
\* backends in registry order, show_snippet of the facade, of the configuration
\* and of every backend agree, and the DuckDuckGo backend has the proxy
\* configuration of the configuration.
C35_FacadeConsistent ==
    /\ \A i, j \in DOMAIN backends : backends[i].name = backends[j].name => i = j
    /\ \A i \in DOMAIN backends : backends[i].name \in BackendNames
    /\ \E i \in DOMAIN backends : backends[i].name = "duckduckgo"
    /\ \E i \in DOMAIN backends : backends[i].name = "youcom"
    /\ get_available_backends(backends) = AvailableInOrder
    /\ \E i \in DOMAIN AvailableInOrder : AvailableInOrder[i] = "duckduckgo"
    /\ (request.op = "get_available_backends") =>
          (result.kind = "names" /\ result.names = AvailableInOrder)
    /\ api_show_snippet = config.show_snippet
    /\ \A i \in DOMAIN backends : backends[i].show_snippet = config.show_snippet
    /\ \A i \in DOMAIN backends :
          backends[i].name = "duckduckgo" => backends[i].proxy_config = config.proxy_config

\* C35 happens: after a load without snippets and with proxy credentials of
\* the mapping, get_available_backends answers for a registry in which youcom is
\* registered without a key and serpapi with one
C35_Witness ==
    /\ request.op = "get_available_backends"
    /\ result.names = <<"duckduckgo", "serpapi">>
    /\ Len(backends) = 3
    /\ api_show_snippet = FALSE
    /\ IsNone(Lookup(backends, "youcom").api_key)

\* a search request that selected its backend itself (backend is None or
\* empty) and whose first search ended with `kind`
AutoQueryEnded(kind) ==
    /\ IsQuery
    /\ ~Truthy(request.backend)
    /\ Len(calls) >= 1
    /\ calls[1].out.kind = kind

\* C36: in search_engine_query with auto selection, when the primary returns an
\* error: with fallback enabled and another available backend the fallback is
\* searched, and when it returns an error too that error is the result and the
\* primary's is dropped; when no other available backend is registered, or
\* fallback is disabled, the primary's error is the result after one search.
C36_FallbackErrorReturned ==
    AutoQueryEnded("error") =>
        /\ (/\ request.backend = None
            /\ config.enable_fallback
            /\ OtherAvailable(calls[1].backend) # {}) => Len(calls) = 2
        /\ (Len(calls) = 2 /\ calls[2].out.kind = "error") => result = calls[2].out
        /\ (~config.enable_fallback \/ OtherAvailable(calls[1].backend) = {}) =>
              /\ Len(calls) = 1
              /\ result = calls[1].out

\* C36 happens: primary and fallback return different errors and the result is
\* the fallback's
C36_Witness ==
    /\ AutoQueryEnded("error")
    /\ config.enable_fallback
    /\ Len(calls) = 2
    /\ calls[2].out.kind = "error"
    /\ calls[2].out # calls[1].out
    /\ result = calls[2].out

\* the primary's error is the result because the other registered backend is
\* not available, though fallback is enabled
C36_NoOtherAvailable ==
    /\ AutoQueryEnded("error")
    /\ request.backend = None
    /\ config.enable_fallback
    /\ Len(backends) >= 2
    /\ OtherAvailable(calls[1].backend) = {}
    /\ result = calls[1].out

\* the primary's error is the result because fallback is disabled, though
\* another backend is available
C36_FallbackDisabled ==
    /\ AutoQueryEnded("error")
    /\ request.backend = None
    /\ ~config.enable_fallback
    /\ OtherAvailable(calls[1].backend) # {}
    /\ Len(calls) = 1
    /\ result = calls[1].out

\* C37: in search_engine_query with auto selection and fallback enabled, when
\* the search of the primary raises, no other backend is searched, whatever
\* else is available, and the result is the error 'Search execution failed:
\* <message>' made of the message of the exception.
C37_RaisingPrimaryNoFallback ==
    (AutoQueryEnded("raise") /\ config.enable_fallback) =>
        /\ Len(calls) = 1
        /\ result = Error(<<"Search execution failed: ", calls[1].out.msg>>)

\* C37 happens: the primary raised with fallback enabled, backend=None and
\* another available backend in the registry
C37_Witness ==
    /\ AutoQueryEnded("raise")
    /\ request.backend = None
    /\ config.enable_fallback
    /\ OtherAvailable(calls[1].backend) # {}
    /\ Len(calls) = 1
    /\ result.kind = "error"

\* a search request with backend=None while the preferred backend of the
\* configuration is youcom, registered without a usable key
PreferredYouComUnavailable ==
    /\ IsQuery
    /\ request.backend = None
    /\ config.preferred_backend = "youcom"
    /\ Registered("youcom")
    /\ ~Configured("youcom")

\* C38: with preferred backend youcom registered without a key,
\* search_engine_query with backend=None searches youcom first and gets its
\* 'not configured' error without a request to the provider; with
\* enable_fallback the result is then what the first other available backend
\* of the registry ended with, and without it the 'not configured' error is
\* the result after that one search, whatever else is available.
C38_UnavailablePreferredFirst ==
    PreferredYouComUnavailable =>
        /\ Len(calls) >= 1
        /\ calls[1].backend = "youcom"
        /\ calls[1].out.kind = "error"
        /\ calls[1].out.error[2] = "not configured"
        /\ calls[1].attempts = 0
        /\ calls[1].sent = NotSent
        /\ (config.enable_fallback /\ OtherAvailable("youcom") # {}) =>
              LET first == CHOOSE i \in OtherAvailable("youcom") :
                               \A j \in OtherAvailable("youcom") : i <= j
              IN  /\ Len(calls) = 2
                  /\ calls[2].backend = backends[first].name
                  /\ result = Surfaced(calls[2].out)
        /\ ~config.enable_fallback =>
              /\ Len(calls) = 1
              /\ result = calls[1].out

\* C38 happens: fallback is disabled and the 'not configured' error of youcom
\* is the result while duckduckgo is registered
C38_Witness ==
    /\ PreferredYouComUnavailable
    /\ ~config.enable_fallback
    /\ Configured("duckduckgo")
    /\ Len(calls) = 1
    /\ result.kind = "error"
    /\ result.error[2] = "not configured"

\* with fallback enabled the result is the list of the next available backend
C38_FallbackTaken ==
    /\ PreferredYouComUnavailable
    /\ config.enable_fallback
    /\ Len(calls) = 2
    /\ calls[2].backend \in {"duckduckgo", "serpapi"}
    /\ result.kind = "list"

(***************************************************************************)
(* Properties of the facade while the environment changes                  *)
(***************************************************************************)

\* the backends the registry holds with the key they were made with
ConfiguredNames == {n \in BackendNames : Configured(n)}

\* what the facade answers from while the registry stays: the registry
C39_FromRegistry ==
    /\ (request.op = "get_available_backends") => Listed = ConfiguredNames
    /\ (/\ IsQuery
        /\ ~Truthy(request.backend)
        /\ ~(Truthy(config.preferred_backend) /\ Registered(config.preferred_backend))) =>
          /\ Len(calls) >= 1
          /\ calls[1].backend = (IF Configured("serpapi") THEN "serpapi"
                                 ELSE IF Configured("youcom") THEN "youcom"
                                 ELSE "duckduckgo")
    /\ (IsQuery /\ Len(calls) = 2) => calls[2].backend \in ConfiguredNames
    /\ (IsFallbackSearch /\ request.backends = NoArg) =>
          /\ \A k \in DOMAIN calls : calls[k].backend \in ConfiguredNames
          /\ result.kind = "error" => Len(calls) = Cardinality(ConfiguredNames)
    /\ (request.op = "config.get_available_backends") =>
          /\ "serpapi" \in Listed <=> KeySet(env.SERPAPI_API_KEY)
          /\ "youcom" \in Listed <=> KeySet(env.YDC_API_KEY)
          /\ "duckduckgo" \in Listed

\* C39: what WebSearchAPI takes for available is fixed when the registry is
\* built. A change of the API keys of the environment leaves the registry and
\* the keys of its backends as they are, so get_available_backends of the
\* facade, auto selection and both fallbacks go on answering from the keys of
\* the last construction or _load_scenario (a serpapi key set later registers
\* no serpapi, a key removed later leaves its backend available), while
\* get_available_backends of the SearchConfig answers from the environment as
\* it is now; a _load_scenario brings the registry back to the environment.
C39_AvailabilityFixedAtBuild ==
    /\ []C39_FromRegistry
    /\ [][/\ env' # env => backends' = backends
          /\ LoadStep =>
                /\ Registered("serpapi")' <=> KeySet(env'.SERPAPI_API_KEY)
                /\ Configured("youcom")' <=> KeySet(env'.YDC_API_KEY)]_vars

\* C39 happens: the SearchConfig of the facade lists serpapi, whose key was set
\* after the registry was built, and the facade does not
C39_Witness ==
    /\ request.op = "config.get_available_backends"
    /\ "serpapi" \in Listed
    /\ ~Registered("serpapi")
    /\ \A i \in DOMAIN get_available_backends(backends) :
          get_available_backends(backends)[i] # "serpapi"

\* auto selection takes serpapi, and searches it, after its key was removed
\* from the environment
C39_KeyRemoved ==
    /\ IsQuery
    /\ request.backend = None
    /\ IsNone(env.SERPAPI_API_KEY)
    /\ Len(calls) >= 1
    /\ calls[1].backend = "serpapi"
    /\ calls[1].attempts >= 1

(***************************************************************************)
(* search_with_fallback without a list                                     *)
(***************************************************************************)

WithoutList == IsFallbackSearch /\ request.backends = NoArg

\* the names the loop of search_with_fallback goes through
Iterated == IF request.backends = NoArg THEN AvailableInOrder ELSE request.backends[1]

\* C40: search_with_fallback without a list searches the available backends in
\* the order of the registry, duckduckgo, then serpapi, then youcom, each after
\* the failure of the one before, so that duckduckgo is searched before an
\* available serpapi; and when no name it goes through is registered and
\* available, the empty list included, no backend is searched and the result
\* is the error 'All backends failed. Last error: None'.
C40_RegistryOrderNotPriority ==
    IsFallbackSearch =>
        /\ WithoutList =>
              /\ Len(calls) >= 1
              /\ Len(calls) <= Len(AvailableInOrder)
              /\ \A k \in DOMAIN calls :
                    /\ calls[k].backend = AvailableInOrder[k]
                    /\ k < Len(calls) => Failed(calls[k])
              /\ calls[1].backend = "duckduckgo"
              /\ \A k \in DOMAIN calls :
                    /\ calls[k].backend = "serpapi" => k = 2
                    /\ calls[k].backend = "youcom" => k = Len(AvailableInOrder)
              /\ (~Failed(calls[Len(calls)])) => result = calls[Len(calls)].out
              /\ Failed(calls[Len(calls)]) => Len(calls) = Len(AvailableInOrder)
        /\ (\A i \in DOMAIN Iterated : ~Usable(Iterated[i])) =>
              /\ calls = <<>>
              /\ result = Error(<<"All backends failed. Last error: ", <<"None">>>>)

\* C40 happens: without a list and with serpapi available, duckduckgo is
\* searched first and fails, and the result is the list of serpapi
C40_Witness ==
    /\ WithoutList
    /\ Usable("serpapi")
    /\ Len(calls) = 2
    /\ calls[1].backend = "duckduckgo"
    /\ Failed(calls[1])
    /\ calls[2].backend = "serpapi"
    /\ result.kind = "list"
    /\ result.from = "serpapi"

\* every name of a list that is not empty is passed over
C40_EverySkipped ==
    /\ WithList
    /\ request.backends[1] = <<"bing", "youcom">>
    /\ ~Usable("youcom")
    /\ calls = <<>>
    /\ result.error[2] = <<"None">>

\* the list is empty
C40_EmptyList ==
    /\ WithList
    /\ request.backends[1] = <<>>
    /\ calls = <<>>
    /\ result.error[2] = <<"None">>

====
